---- MODULE Spec2Model ----
(***************************************************************************)
(* Banking notification service: the notification decision-and-delivery    *)
(* pipeline (router, dedup store, rate budget store, event ingestor,       *)
(* retry engine) as a state machine.                                       *)
(*                                                                         *)
(* Time: `now' is a monotonic clock in seconds (Redis TTLs, retry delays); *)
(* `tod' is the process-local wall clock as minutes of the day, the value  *)
(* that Date.toTimeString().slice(0, 5) renders as HH:MM.                  *)
(***************************************************************************)
EXTENDS Integers, Sequences, FiniteSets, TLC

\* ------------------------------------------------------------------ bounds
MaxCalls == 2            \* Route invocations per behaviour
CapHour == 1             \* the user's per-hour cap (preferences.rateLimits)
CapDay == 2              \* the user's per-day cap (preferences.rateLimits)
BatchSize == 2           \* messages in the batch handed to eachBatch
MaxRetryCalls == 6       \* Route invocations per behaviour, retry engine running
MaxBudgetSteps == 6      \* direct budget calls and clock steps per behaviour
MaxDigest == 2           \* entries queued in one digest list
MaxDigestCalls == 3      \* Route invocations per behaviour, digest engine running
MaxOverlapCalls == 4     \* Route invocations per behaviour, retry runs overlapping
MaxLateCalls == 7        \* Route invocations per behaviour, ticks overlapping, one manual retry
MaxDue == 101            \* records due at the same tick
MaxScanTicks == 2        \* ticks of the interval timer per behaviour, batch limit
MaxMinutes == 2          \* minutes past the hour the digest ticks reach
MaxStopCalls == 3        \* Route invocations per behaviour, process shutting down
MaxDeviceId == 11        \* device ids a user registers

Calls == 1..MaxCalls
Offsets == 1..BatchSize
RetryCalls == 1..MaxRetryCalls

\* --------------------------------------------------------------- constants
RATE_LIMIT_HOUR == 3600
RATE_LIMIT_DAY == 86400
maxRetryAttempts == 5
retryDelaySchedule == <<1, 5, 30, 300, 3600>>    \* seconds

Channels == {"websocket", "sms", "email", "push"}
RateChannels == {"sms", "email", "push"}
Priorities == {"low", "medium", "high", "critical"}
Users == {"u1"}
Kinds == {"login_attempt", "transfer_failed", "account_locked", "regulatory_alert"}
Sources == {"none", "s1"}

\* The slice of the event-kind catalog the model routes.
EVENT_TYPE_CONFIGS ==
    [k \in Kinds |->
       CASE k = "login_attempt" ->
              [defaultChannels |-> {"email"}, priority |-> "medium",
               bypassQuietHours |-> FALSE, allowDigest |-> TRUE, dedupWindowMs |-> 300000]
         [] k = "transfer_failed" ->
              [defaultChannels |-> {"websocket", "email"}, priority |-> "high",
               bypassQuietHours |-> FALSE, allowDigest |-> FALSE, dedupWindowMs |-> 300000]
         [] k = "account_locked" ->
              [defaultChannels |-> {"sms", "websocket"}, priority |-> "critical",
               bypassQuietHours |-> TRUE, allowDigest |-> FALSE, dedupWindowMs |-> 0]
         [] k = "regulatory_alert" ->
              [defaultChannels |-> {"email"}, priority |-> "critical",
               bypassQuietHours |-> FALSE, allowDigest |-> FALSE, dedupWindowMs |-> 0]]

\* Math.ceil(a / b) for a >= 0, b > 0
Ceil(a, b) == (a + b - 1) \div b

\* ------------------------------------------------------------------- state
VARIABLES
    now,            \* monotonic clock, seconds
    tod,            \* process-local time of day, minutes since 00:00
    prefs,          \* preferences store: user -> preferences document
    dedup,          \* dedup store: key -> [id, exp] (id = 0: no entry)
    rate,           \* rate store: <<user, channel>> -> hour and day counters
    allowedSince,   \* per counter: 'allowed' answers since the key last expired
    pc,             \* per Route invocation: position in route()
    req,            \* per Route invocation: the NotificationRequest
    gate,           \* per Route invocation: outcome of the dedup gate
    selected,       \* per Route invocation: resolved channel set, quiet-hours reading
    chan,           \* per Route invocation and channel: position in sendToChannel()
    result,         \* per Route invocation: the RouteResult being built
    records,        \* history store: Delivery Records
    providerCalls,  \* adapter invocations made: <<invocation, channel, status>>
    consumed,       \* rate budget consumed: <<invocation, channel>>
    log,            \* log messages written that carry a contact field
    audit,          \* audit topic: the events published, with their keys
    dlq,            \* dead-letter store: DLQ records
    batch,          \* ingestor: the value of each message of the batch, by offset
    correlationId,  \* ingestor: the correlationId of each event (<<>>: none)
    mpc,            \* ingestor: per message, position in the batch handler
    resolved,       \* ingestor: offsets marked resolved on the partition
    batchState,     \* ingestor: "none", "running", "returned" or "threw"
    retry,          \* retry engine: the running tick or manual retry
    cycles,         \* retryNotification calls made, in order: [id, by]
    overlap,        \* retry engine: a run started while another is in flight
    reply,          \* the answer of the last direct consumeLimit call
    digest,         \* digest store: frequency -> list of queued entries (user u1)
    dg,             \* digest engine: the running sendDigestForUser
    life            \* the process: position in shutdown(), grace deadline, exit code

routerVars == <<now, tod, prefs, dedup, rate, allowedSince, pc, req, gate,
                selected, chan, result, records, providerCalls, consumed, log,
                audit>>
ingestVars == <<batch, correlationId, mpc, resolved, batchState>>
retryVars == <<retry, cycles, overlap>>
budgetVars == <<reply, life>>
digestVars == <<digest, dg>>

vars == <<routerVars, dlq, ingestVars, retryVars, budgetVars, digestVars>>

\* ---------------------------------------------------------- contact fields
\* A contact value: its text, the layers of AES encryption over it, and
\* whether it is the whole text or only its first characters.
Absent == [text |-> "", layers |-> 0, whole |-> TRUE]
Typed(text) == [text |-> text, layers |-> 0, whole |-> TRUE]

encryptField(value) == [value EXCEPT !.layers = @ + 1]

\* Bytes that are no ciphertext decrypt to the empty string.
decryptField(encrypted) ==
    IF encrypted.layers > 0 THEN [encrypted EXCEPT !.layers = @ - 1] ELSE Absent

\* token.substring(0, 10) + '...'
substring(value) == [value EXCEPT !.whole = FALSE]

\* ------------------------------------------------------------ preferences
NoTypePref == [present |-> FALSE, enabled |-> TRUE, channels |-> {},
               quietHoursOverride |-> FALSE]

\* Schema defaults of a freshly created document (findOrCreateByUserId),
\* with the contact fields the model needs to reach every channel, stored as
\* the preferences routes store them.
\* timezone is the user's zone as its offset from the zone of the process, in
\* minutes: 0 for a user in the zone the process runs in.
DefaultPrefs ==
    [doNotContact |-> FALSE,
     channels |-> [ch \in Channels |-> TRUE],
     notificationTypes |-> [k \in Kinds |-> NoTypePref],
     quietHours |-> [enabled |-> FALSE, start |-> 1320, end |-> 420,
                     criticalAlertsBypass |-> TRUE],
     digestEnabled |-> FALSE,
     digestFrequency |-> "daily",
     digestHour |-> 9,
     timezone |-> 0,
     email |-> TRUE,
     phoneNumber |-> encryptField(Typed("phone")),
     address |-> encryptField(Typed("email")),
     token |-> Typed("token"),
     phoneVerified |-> TRUE,
     emailVerified |-> TRUE,
     devices |-> <<[deviceId |-> 1, token |-> Typed("token")]>>,
     rateLimits |-> [hour |-> CapHour, day |-> CapDay]]

getDecryptedPhoneNumber(p) ==
    IF p.phoneNumber = Absent THEN Absent ELSE decryptField(p.phoneNumber)

getDecryptedEmail(p) ==
    IF p.address = Absent THEN Absent ELSE decryptField(p.address)

isChannelEnabled(p, ch) ==
    IF p.doNotContact THEN FALSE ELSE p.channels[ch]

getEnabledChannelsForEvent(p, k, defaultChannels) ==
    IF p.doNotContact THEN {}
    ELSE LET tp == p.notificationTypes[k] IN
         IF tp.present /\ ~tp.enabled THEN {}
         ELSE LET configured == IF tp.present /\ tp.channels # {}
                                THEN tp.channels ELSE defaultChannels
              IN {ch \in configured : isChannelEnabled(p, ch)}

isInQuietHours(p, t) ==
    IF ~p.quietHours.enabled THEN FALSE
    ELSE IF p.quietHours.start > p.quietHours.end
         THEN t >= p.quietHours.start \/ t < p.quietHours.end
         ELSE t >= p.quietHours.start /\ t < p.quietHours.end

shouldBypassQuietHours(p, k) ==
    LET tp == p.notificationTypes[k] IN
    IF tp.present /\ tp.quietHoursOverride THEN TRUE
    ELSE p.quietHours.criticalAlertsBypass

\* The selection without the socket fallback of critical notifications.
selectChannelsNoFallback(p, k, defaultChannels, priority) ==
    getEnabledChannelsForEvent(p, k, defaultChannels)

selectChannels(p, k, defaultChannels, priority) ==
    LET chs == getEnabledChannelsForEvent(p, k, defaultChannels) IN
    IF priority = "critical" /\ chs = {} /\ isChannelEnabled(p, "websocket")
    THEN {"websocket"} ELSE chs

\* ------------------------------------------------------------ dedup store
NoEntry == [id |-> 0, exp |-> 0]

\* DeduplicationService.generateKey: an absent source id becomes 'none'
generateKey(userId, eventType, sourceId) ==
    <<userId, eventType, IF sourceId = "undefined" THEN "none" ELSE sourceId>>

DedupKeys == Users \X Kinds \X Sources

\* ------------------------------------------------------------- rate store
NoCounter == [n |-> 0, exp |-> 0]
RateKeys == Users \X RateChannels

\* ---------------------------------------------------------- history store
\* A nullable column that holds no value.
Null == 0 - 1

idempotencyKey(rq, ch) ==
    <<rq.userId, rq.eventType,
      IF rq.eventSourceId = "undefined" THEN "none" ELSE rq.eventSourceId, ch>>

\* NotificationEvent.create inside storeNotification: the insert is rejected
\* by the primary key (notification_id) or by the unique idempotency index;
\* storeNotification swallows the rejection.
storeNotification(recs, c, rq, ch, status, priority, up) ==
    IF up /\ ~\E r \in recs : r.notificationId = c
                              \/ r.idempotencyKey = idempotencyKey(rq, ch)
    THEN recs \cup {[notificationId |-> c, userId |-> rq.userId,
                     eventType |-> rq.eventType, eventSourceId |-> rq.eventSourceId,
                     channel |-> ch, priority |-> priority,
                     deliveryStatus |-> status, retryCount |-> 0,
                     nextRetryAt |-> Null,
                     idempotencyKey |-> idempotencyKey(rq, ch)]}
    ELSE recs

\* ------------------------------------------------------------------ router
NoRequest == [userId |-> "u1", eventType |-> "login_attempt",
              eventSourceId |-> "undefined", priority |-> "undefined"]

\* A skip entry is a channel and a reason; detail is the value that the text
\* of the reason carries besides its fixed words (Null: none).
EmptyResult == [results |-> {}, skippedChannels |-> {}, queued |-> FALSE,
                digestQueued |-> FALSE]

effectivePriority(rq) ==
    IF rq.priority = "undefined" THEN EVENT_TYPE_CONFIGS[rq.eventType].priority
    ELSE rq.priority

\* route(), entry: a fresh notification id (the invocation's index) and an
\* empty RouteResult; the first await is the dedup gate.
Route(c, rq) ==
    /\ pc[c] = "idle"
    /\ pc' = [pc EXCEPT ![c] = "dedup"]
    /\ req' = [req EXCEPT ![c] = rq]
    /\ result' = [result EXCEPT ![c] = EmptyResult]
    /\ UNCHANGED <<now, tod, audit, prefs, log, dedup, rate, allowedSince, gate, selected,
                   chan, records, providerCalls, consumed>>

\* checkAndMark without the GET: every call registers.
CheckAndMarkBlind(c, up) ==
    /\ pc[c] = "dedup"
    /\ LET rq == req[c]
           key == generateKey(rq.userId, rq.eventType, rq.eventSourceId)
           ttlSeconds == Ceil(EVENT_TYPE_CONFIGS[rq.eventType].dedupWindowMs, 1000)
       IN IF ~up \/ ttlSeconds <= 0
          THEN /\ gate' = [gate EXCEPT ![c] = [kind |-> "error", of |-> 0, at |-> now]]
               /\ UNCHANGED dedup
          ELSE /\ dedup' = [dedup EXCEPT ![key] = [id |-> c, exp |-> now + ttlSeconds]]
               /\ gate' = [gate EXCEPT ![c] = [kind |-> "registered", of |-> 0, at |-> now]]
    /\ pc' = [pc EXCEPT ![c] = "prefs"]
    /\ UNCHANGED <<now, tod, audit, prefs, log, rate, allowedSince, req, selected, chan,
                   result, records, providerCalls, consumed>>

\* DeduplicationService.checkAndMark, one atomic script: GET; if present
\* return it, else SETEX key ttl data. SETEX rejects ttl <= 0 and an
\* unavailable store rejects the call: both end in the catch, "not duplicate".
CheckAndMark(c, up) ==
    /\ pc[c] = "dedup"
    /\ LET rq == req[c]
           key == generateKey(rq.userId, rq.eventType, rq.eventSourceId)
           ttlSeconds == Ceil(EVENT_TYPE_CONFIGS[rq.eventType].dedupWindowMs, 1000)
       IN IF ~up
          THEN /\ gate' = [gate EXCEPT ![c] = [kind |-> "error", of |-> 0, at |-> now]]
               /\ pc' = [pc EXCEPT ![c] = "prefs"]
               /\ UNCHANGED <<dedup, result>>
          ELSE IF dedup[key].id # 0
          THEN /\ gate' = [gate EXCEPT ![c] = [kind |-> "duplicate", of |-> dedup[key].id, at |-> now]]
               /\ result' = [result EXCEPT ![c].skippedChannels =
                                @ \cup {[channel |-> "websocket",
                                         reason |-> "Duplicate notification",
                                         detail |-> Null]}]
               /\ pc' = [pc EXCEPT ![c] = "done"]
               /\ UNCHANGED dedup
          ELSE IF ttlSeconds <= 0
          THEN /\ gate' = [gate EXCEPT ![c] = [kind |-> "error", of |-> 0, at |-> now]]
               /\ pc' = [pc EXCEPT ![c] = "prefs"]
               /\ UNCHANGED <<dedup, result>>
          ELSE /\ dedup' = [dedup EXCEPT ![key] = [id |-> c, exp |-> now + ttlSeconds]]
               /\ gate' = [gate EXCEPT ![c] = [kind |-> "registered", of |-> 0, at |-> now]]
               /\ pc' = [pc EXCEPT ![c] = "prefs"]
               /\ UNCHANGED result
    /\ UNCHANGED <<now, tod, audit, prefs, log, rate, allowedSince, req, selected, chan,
                   records, providerCalls, consumed>>

NoGate == [kind |-> "none", of |-> 0, at |-> 0]
NoSelection == [load |-> "none", reached |-> FALSE, channels |-> {},
                inQuietHours |-> FALSE]

\* The invocation returns once every sendToChannel promise has settled.
Settled(c, ch) ==
    \A other \in Channels \ {ch} : chan[c][other] \in {"off", "fin"}

\* The bypass flag without the priority test.
bypassQuietHoursNoCritical(eventConfig, p, k, priority) ==
    \/ eventConfig.bypassQuietHours
    \/ shouldBypassQuietHours(p, k)

\* The bypass flag of the quiet-hours gate in route().
bypassQuietHours(eventConfig, p, k, priority) ==
    \/ eventConfig.bypassQuietHours
    \/ shouldBypassQuietHours(p, k)
    \/ priority = "critical"

\* The decision without the do-not-contact exit.
RouteDecisionNoOptOut(p, rq, t) ==
    LET eventConfig == EVENT_TYPE_CONFIGS[rq.eventType]
        priority == effectivePriority(rq)
        channels == selectChannels(p, rq.eventType, eventConfig.defaultChannels, priority)
        inQuietHours == isInQuietHours(p, t)
    IN IF inQuietHours /\ ~bypassQuietHours(eventConfig, p, rq.eventType, priority)
       THEN [step |-> "quiet", channels |-> channels, inQuietHours |-> TRUE,
             digest |-> eventConfig.allowDigest /\ p.digestEnabled]
       ELSE [step |-> "fanout", channels |-> channels, inQuietHours |-> inQuietHours,
             digest |-> FALSE]

\* route() between the preferences load and the fan-out: the do-not-contact
\* exit, selectChannels, and the quiet-hours gate with its two exits.
RouteDecision(p, rq, t) ==
    LET eventConfig == EVENT_TYPE_CONFIGS[rq.eventType]
        priority == effectivePriority(rq)
        channels == selectChannels(p, rq.eventType, eventConfig.defaultChannels, priority)
        inQuietHours == isInQuietHours(p, t)
    IN IF p.doNotContact
       THEN [step |-> "optout", channels |-> {}, inQuietHours |-> FALSE, digest |-> FALSE]
       ELSE IF inQuietHours /\ ~bypassQuietHours(eventConfig, p, rq.eventType, priority)
       THEN [step |-> "quiet", channels |-> channels, inQuietHours |-> TRUE,
             digest |-> eventConfig.allowDigest /\ p.digestEnabled]
       ELSE [step |-> "fanout", channels |-> channels, inQuietHours |-> inQuietHours,
             digest |-> FALSE]

\* The preferences load with a failure answered by the schema defaults.
LoadPreferencesFailOpen(c, up) ==
    /\ pc[c] = "prefs"
    /\ LET p == IF up THEN prefs[req[c].userId] ELSE DefaultPrefs
           d == RouteDecision(p, req[c], tod)
           sel == [load |-> IF up THEN "ok" ELSE "failed", reached |-> TRUE,
                   channels |-> d.channels, inQuietHours |-> d.inQuietHours]
       IN IF d.step = "optout"
          THEN /\ result' = [result EXCEPT ![c].skippedChannels =
                                @ \cup {[channel |-> "websocket",
                                         reason |-> "User has opted out of notifications",
                                         detail |-> Null]}]
               /\ pc' = [pc EXCEPT ![c] = "done"]
               /\ UNCHANGED <<selected, chan>>
          ELSE IF d.step = "quiet"
          THEN /\ result' = [result EXCEPT ![c].digestQueued = d.digest,
                                           ![c].queued = ~d.digest]
               /\ selected' = [selected EXCEPT ![c] = sel]
               /\ pc' = [pc EXCEPT ![c] = "done"]
               /\ UNCHANGED chan
          ELSE /\ selected' = [selected EXCEPT ![c] = sel]
               /\ chan' = [chan EXCEPT ![c] =
                              [ch \in Channels |->
                                 IF ch \notin d.channels THEN "off"
                                 ELSE IF ch = "websocket" THEN "send" ELSE "rate"]]
               /\ pc' = [pc EXCEPT ![c] = IF d.channels = {} THEN "done" ELSE "sending"]
               /\ UNCHANGED result
    /\ UNCHANGED <<now, tod, audit, prefs, log, dedup, rate, allowedSince, req, gate,
                   records, providerCalls, consumed>>

\* route() from the preferences load up to the fan-out: the decision above,
\* loadUserContactInfo, and the start of one sendToChannel per selected
\* channel (the websocket budget call touches no store). A failed load leaves
\* route() through its catch: it throws.
LoadPreferences(c, up) ==
    /\ pc[c] = "prefs"
    /\ LET d == RouteDecision(prefs[req[c].userId], req[c], tod)
       IN IF ~up
          THEN /\ selected' = [selected EXCEPT ![c].load = "failed"]
               /\ pc' = [pc EXCEPT ![c] = "thrown"]
               /\ UNCHANGED <<result, chan>>
          ELSE IF d.step = "optout"
          THEN /\ result' = [result EXCEPT ![c].skippedChannels =
                                @ \cup {[channel |-> "websocket",
                                         reason |-> "User has opted out of notifications",
                                         detail |-> Null]}]
               /\ pc' = [pc EXCEPT ![c] = "done"]
               /\ UNCHANGED <<selected, chan>>
          ELSE IF d.step = "quiet"
          THEN /\ result' = [result EXCEPT ![c].digestQueued = d.digest,
                                           ![c].queued = ~d.digest]
               /\ selected' = [selected EXCEPT ![c] =
                                  [load |-> "ok", reached |-> TRUE, channels |-> d.channels,
                                   inQuietHours |-> d.inQuietHours]]
               /\ pc' = [pc EXCEPT ![c] = "done"]
               /\ UNCHANGED chan
          ELSE /\ selected' = [selected EXCEPT ![c] =
                                  [load |-> "ok", reached |-> TRUE, channels |-> d.channels,
                                   inQuietHours |-> d.inQuietHours]]
               /\ chan' = [chan EXCEPT ![c] =
                              [ch \in Channels |->
                                 IF ch \notin d.channels THEN "off"
                                 ELSE IF ch = "websocket" THEN "send" ELSE "rate"]]
               /\ pc' = [pc EXCEPT ![c] = IF d.channels = {} THEN "done" ELSE "sending"]
               /\ UNCHANGED result
    /\ UNCHANGED <<now, tod, audit, prefs, log, dedup, rate, allowedSince, req, gate,
                   records, providerCalls, consumed>>

\* Redis TTL of a counter key at time t: -2 for an absent key.
TTL(k, t) == IF k = NoCounter THEN 0 - 2 ELSE k.exp - t

\* The script with the caps compared by > instead of >=.
LuaConsumeOffByOne(ctr, hourLimit, dayLimit, t) ==
    IF ctr.hour.n > hourLimit
    THEN [allowed |-> FALSE, n |-> ctr.hour.n, limit |-> hourLimit,
          ttl |-> TTL(ctr.hour, t), ctr |-> ctr]
    ELSE IF ctr.day.n > dayLimit
    THEN [allowed |-> FALSE, n |-> ctr.day.n, limit |-> dayLimit,
          ttl |-> TTL(ctr.day, t), ctr |-> ctr]
    ELSE [allowed |-> TRUE,
          n |-> IF hourLimit - ctr.hour.n <= dayLimit - ctr.day.n
                THEN hourLimit - ctr.hour.n - 1 ELSE dayLimit - ctr.day.n - 1,
          limit |-> hourLimit, ttl |-> RATE_LIMIT_HOUR,
          ctr |-> [hour |-> [n |-> ctr.hour.n + 1, exp |-> t + RATE_LIMIT_HOUR],
                   day |-> [n |-> ctr.day.n + 1, exp |-> t + RATE_LIMIT_DAY]]]

\* The Lua script of RateLimiter.consumeLimit on the two counters of one
\* (user, channel): refuse when either is at its cap, answering the count,
\* the cap and the TTL of the counter that refused; else INCR both, EXPIRE
\* both, and answer the remaining budget and the TTL of the hour counter.
LuaConsume(ctr, hourLimit, dayLimit, t) ==
    IF ctr.hour.n >= hourLimit
    THEN [allowed |-> FALSE, n |-> ctr.hour.n, limit |-> hourLimit,
          ttl |-> TTL(ctr.hour, t), ctr |-> ctr]
    ELSE IF ctr.day.n >= dayLimit
    THEN [allowed |-> FALSE, n |-> ctr.day.n, limit |-> dayLimit,
          ttl |-> TTL(ctr.day, t), ctr |-> ctr]
    ELSE [allowed |-> TRUE,
          n |-> IF hourLimit - ctr.hour.n <= dayLimit - ctr.day.n
                THEN hourLimit - ctr.hour.n - 1 ELSE dayLimit - ctr.day.n - 1,
          limit |-> hourLimit, ttl |-> RATE_LIMIT_HOUR,
          ctr |-> [hour |-> [n |-> ctr.hour.n + 1, exp |-> t + RATE_LIMIT_HOUR],
                   day |-> [n |-> ctr.day.n + 1, exp |-> t + RATE_LIMIT_DAY]]]

\* consumeLimit with the reset instant always a day away.
consumeLimitDayReset(ctr, hourLimit, dayLimit, t, up) ==
    IF ~up
    THEN [allowed |-> TRUE, remaining |-> 0 - 1, limit |-> 0 - 1, resetAt |-> t,
          ctr |-> ctr]
    ELSE LET r == LuaConsume(ctr, hourLimit, dayLimit, t)
         IN [allowed |-> r.allowed, remaining |-> r.n, limit |-> r.limit,
             resetAt |-> t + RATE_LIMIT_DAY, ctr |-> r.ctr]

\* consumeLimit with a store error answered 'refused'.
consumeLimitFailClosed(ctr, hourLimit, dayLimit, t, up) ==
    IF ~up
    THEN [allowed |-> FALSE, remaining |-> 0 - 1, limit |-> 0 - 1, resetAt |-> t,
          ctr |-> ctr]
    ELSE LET r == LuaConsume(ctr, hourLimit, dayLimit, t)
         IN [allowed |-> r.allowed, remaining |-> r.n, limit |-> r.limit,
             resetAt |-> t + (IF r.ttl > 0 THEN r.ttl ELSE RATE_LIMIT_HOUR),
             ctr |-> r.ctr]

\* RateLimiter.consumeLimit for sms, email and push: the script's answer
\* turned into a RateLimitResult; a store error is caught and answered
\* 'allowed' with nothing counted.
consumeLimit(ctr, hourLimit, dayLimit, t, up) ==
    IF ~up
    THEN [allowed |-> TRUE, remaining |-> 0 - 1, limit |-> 0 - 1, resetAt |-> t,
          ctr |-> ctr]
    ELSE LET r == LuaConsume(ctr, hourLimit, dayLimit, t)
         IN [allowed |-> r.allowed, remaining |-> r.n, limit |-> r.limit,
             resetAt |-> t + (IF r.ttl > 0 THEN r.ttl ELSE RATE_LIMIT_HOUR),
             ctr |-> r.ctr]

\* sendToChannel, first await: rateLimiter.consumeLimit. On refusal the skip
\* is recorded, its reason giving the reset instant, and a rate_limited
\* Delivery Record is stored.
ConsumeLimit(c, ch, up, histUp) ==
    /\ pc[c] = "sending"
    /\ chan[c][ch] = "rate"
    /\ LET rq == req[c]
           key == <<rq.userId, ch>>
           limits == prefs[rq.userId].rateLimits
           answer == consumeLimit(rate[key], limits.hour, limits.day, now, up)
           counted == answer.ctr # rate[key]
       IN IF answer.allowed
          THEN /\ rate' = [rate EXCEPT ![key] = answer.ctr]
               /\ allowedSince' = IF counted
                                  THEN [allowedSince EXCEPT ![key].hour = @ + 1,
                                                            ![key].day = @ + 1]
                                  ELSE allowedSince
               /\ consumed' = IF counted THEN consumed \cup {<<c, ch>>} ELSE consumed
               /\ chan' = [chan EXCEPT ![c][ch] = "send"]
               /\ UNCHANGED <<result, records, pc>>
          ELSE /\ result' = [result EXCEPT ![c].skippedChannels =
                                @ \cup {[channel |-> ch, reason |-> "Rate limit exceeded",
                                         detail |-> answer.resetAt]}]
               /\ records' = storeNotification(records, c, rq, ch, "rate_limited",
                                               effectivePriority(rq), histUp)
               /\ chan' = [chan EXCEPT ![c][ch] = "fin"]
               /\ pc' = [pc EXCEPT ![c] = IF Settled(c, ch) THEN "done" ELSE @]
               /\ UNCHANGED <<rate, allowedSince, consumed>>
    /\ UNCHANGED <<now, tod, audit, prefs, log, dedup, req, gate, selected, providerCalls>>

\* Channel preconditions checked in the switch of sendToChannel.
ContactReady(p, ch) ==
    CASE ch = "sms" -> p.phoneVerified
      [] ch = "email" -> p.emailVerified
      [] ch = "push" -> Len(p.devices) > 0
      [] OTHER -> TRUE

ContactReason(ch) ==
    CASE ch = "sms" -> "Phone number not verified"
      [] ch = "email" -> "Email not verified"
      [] OTHER -> "No push tokens registered"

\* sendToChannel after the budget call: precondition check, the adapter call
\* (outcome: its normalized status, or "throw"), the result entry (error: the
\* entry was built by the catch) and the Delivery Record. The push adapter
\* logs the start of the token of a device that the provider reported failed.
SendToChannel(c, ch, outcome, histUp) ==
    /\ pc[c] = "sending"
    /\ chan[c][ch] = "send"
    /\ LET rq == req[c]
           p == prefs[rq.userId]
           status == IF outcome = "throw" THEN "failed" ELSE outcome
       IN IF ~ContactReady(p, ch)
          THEN /\ result' = [result EXCEPT ![c].skippedChannels =
                                @ \cup {[channel |-> ch, reason |-> ContactReason(ch),
                                         detail |-> Null]}]
               /\ UNCHANGED <<records, providerCalls, log>>
          ELSE /\ providerCalls' = providerCalls \cup {<<c, ch, status>>}
               /\ log' = IF ch = "push" /\ outcome = "failed"
                          THEN log \cup {[message |-> "Push notification failed for device",
                                          value |-> substring(p.token)]}
                          ELSE log
               /\ result' = [result EXCEPT ![c].results =
                                @ \cup {[channel |-> ch, status |-> status,
                                         error |-> outcome = "throw"]}]
               /\ records' = storeNotification(records, c, rq, ch, status,
                                               effectivePriority(rq), histUp)
    /\ chan' = [chan EXCEPT ![c][ch] = "fin"]
    /\ pc' = [pc EXCEPT ![c] = IF Settled(c, ch) THEN "done" ELSE @]
    /\ UNCHANGED <<now, tod, audit, prefs, dedup, rate, allowedSince, req, gate,
                   selected, consumed>>

\* Adapter outcomes: the socket gateway reports delivered or sent, the other
\* adapters sent; every adapter can fail or throw.
Outcomes(ch) ==
    IF ch = "websocket" THEN {"delivered", "sent", "failed", "throw"}
    ELSE {"sent", "failed", "throw"}

\* The outcomes an adapter reports itself. An exception differs from a
\* reported failure only in the error of the result entry, which the retry
\* engine and the digest engine never read.
Reported(ch) == Outcomes(ch) \ {"throw"}

\* ------------------------------------------------------------- audit topic
\* NotificationEventPublisher.publish: without a connected producer the event
\* is only logged; else one message goes to the topic, keyed by the user id
\* of the payload (a failed send is logged).
publish(topic, eventType, payload, connected) ==
    IF ~connected THEN topic
    ELSE topic \cup {[key |-> payload.userId, eventType |-> eventType,
                      notificationId |-> payload.notificationId]}

\* publishNotificationSent. Nothing in the service calls it, nor any other
\* method of the publisher: no step of the router writes the topic.
publishNotificationSent(topic, notificationId, userId, connected) ==
    publish(topic, "notification.sent",
            [notificationId |-> notificationId, userId |-> userId], connected)

\* ------------------------------------------------------------------- clock
\* Time passes, between Route invocations and between retry ticks, up to the
\* next instant at which a stored TTL runs out or a retry falls due; Redis
\* drops the keys whose TTL has run out.
Timers ==
    {dedup[k].exp : k \in DedupKeys}
      \cup {rate[k].hour.exp : k \in RateKeys}
      \cup {rate[k].day.exp : k \in RateKeys}
      \cup {r.nextRetryAt : r \in records}

\* The clock reaches t: Redis drops the keys whose TTL has run out.
Elapse(t) ==
    /\ now' = t
    /\ dedup' = [k \in DedupKeys |-> IF dedup[k].exp <= t THEN NoEntry ELSE dedup[k]]
    /\ rate' = [k \in RateKeys |->
                  [hour |-> IF rate[k].hour.exp <= t THEN NoCounter ELSE rate[k].hour,
                   day |-> IF rate[k].day.exp <= t THEN NoCounter ELSE rate[k].day]]
    /\ allowedSince' = [k \in RateKeys |->
                  [hour |-> IF rate[k].hour.exp <= t THEN 0 ELSE allowedSince[k].hour,
                   day |-> IF rate[k].day.exp <= t THEN 0 ELSE allowedSince[k].day]]
    /\ UNCHANGED <<tod, audit, prefs, log, pc, req, gate, selected, chan, result, records,
                   providerCalls, consumed>>

Advance(t) ==
    /\ t \in Timers
    /\ t > now
    /\ \A u \in Timers : u > now => t <= u
    /\ \A c \in DOMAIN pc : pc[c] \in {"idle", "done", "thrown", "closed"}
    /\ retry.phase = "idle"
    /\ overlap.phase = "idle"
    /\ Elapse(t)

\* ------------------------------------------------- concurrent Route calls
DncPrefs == [DefaultPrefs EXCEPT !.doNotContact = TRUE]

\* A per-kind channel override: the user receives every kind on one channel.
OnChannel(ch) ==
    [DefaultPrefs EXCEPT !.notificationTypes =
        [k \in Kinds |-> [present |-> TRUE, enabled |-> TRUE, channels |-> {ch},
                          quietHoursOverride |-> FALSE]]]

Requests ==
    [userId : Users, eventType : {"login_attempt"},
     eventSourceId : {"undefined", "s1"}, priority : {"undefined"}]

InitRouter(slots) ==
    /\ now = 0
    /\ rate = [k \in RateKeys |-> [hour |-> NoCounter, day |-> NoCounter]]
    /\ allowedSince = [k \in RateKeys |-> [hour |-> 0, day |-> 0]]
    /\ pc = [c \in slots |-> "idle"]
    /\ req = [c \in slots |-> NoRequest]
    /\ gate = [c \in slots |-> NoGate]
    /\ selected = [c \in slots |-> NoSelection]
    /\ chan = [c \in slots |-> [ch \in Channels |-> "off"]]
    /\ result = [c \in slots |-> EmptyResult]
    /\ records = {}
    /\ providerCalls = {}
    /\ consumed = {}
    /\ log = {}
    /\ audit = {}

\* No batch is being handled.
IngestorIdle ==
    /\ batch = <<>>
    /\ correlationId = <<>>
    /\ mpc = <<>>
    /\ resolved = {}
    /\ batchState = "none"

\* No instance of a Delivery Record is held.
NoRow == [notificationId |-> 0, userId |-> "u1", eventType |-> "login_attempt",
          eventSourceId |-> "undefined", channel |-> "websocket",
          priority |-> "undefined", deliveryStatus |-> "pending", retryCount |-> 0,
          nextRetryAt |-> Null,
          idempotencyKey |-> <<"u1", "login_attempt", "none", "websocket">>]

\* answer, with id: what the last manualRetry returned for which id,
\* readable until the engine's next operation starts.
NoRetry == [phase |-> "idle", queue |-> <<>>, id |-> 0, by |-> "none", slot |-> 0,
            row |-> NoRow, answer |-> "none"]

\* No direct budget call has been answered.
NoReply == [present |-> FALSE, up |-> TRUE, allowed |-> FALSE, resetAt |-> 0,
            hourCount |-> 0, dayCount |-> 0, hourLimit |-> 0, dayLimit |-> 0,
            at |-> 0, steps |-> 0]
\* The process is up: no signal has been received.
Running == [phase |-> "running", deadline |-> Null, exit |-> Null]
BudgetIdle == reply = NoReply /\ life = Running

DigestFrequencies == {"hourly", "daily", "weekly"}

NoDigestRun == [phase |-> "idle", frequency |-> "daily", entries |-> <<>>,
                status |-> "none", left |-> <<>>]
DigestIdle ==
    /\ digest = [f \in DigestFrequencies |-> <<>>]
    /\ dg = NoDigestRun

\* The retry engine is between ticks.
RetryIdle ==
    /\ retry = NoRetry
    /\ cycles = <<>>
    /\ overlap = NoRetry

Init ==
    /\ InitRouter(Calls)
    /\ IngestorIdle
    /\ RetryIdle
    /\ BudgetIdle
    /\ DigestIdle
    /\ dlq = {}
    /\ dedup = [k \in DedupKeys |-> NoEntry]
    /\ tod = 720
    /\ prefs \in [Users -> {DefaultPrefs, DncPrefs, OnChannel("sms"), OnChannel("push")}]

\* The router's steps leave the ingestor, the retry engine and the
\* dead-letter store alone.
RouterOnly == UNCHANGED <<dlq, ingestVars, retryVars, budgetVars, digestVars>>

\* Invocation slots are taken in order.
FirstIdle(c) == pc[c] = "idle" /\ \A d \in DOMAIN pc : d < c => pc[d] # "idle"

StartRoute == \E c \in Calls : \E rq \in Requests :
                 FirstIdle(c) /\ Route(c, rq) /\ RouterOnly
DedupGate == \E c \in Calls : \E up \in BOOLEAN : CheckAndMark(c, up) /\ RouterOnly
PreferencesLoad == \E c \in Calls : \E up \in BOOLEAN :
                      LoadPreferences(c, up) /\ RouterOnly
BudgetCall == \E c \in Calls : \E ch \in RateChannels :
                 \E up \in BOOLEAN : ConsumeLimit(c, ch, up, TRUE) /\ RouterOnly
ChannelSend == \E c \in Calls : \E ch \in Channels :
                  \E o \in Outcomes(ch) : SendToChannel(c, ch, o, TRUE) /\ RouterOnly
TimePasses == \E t \in Timers : Advance(t) /\ RouterOnly

Next ==
    \/ StartRoute
    \/ DedupGate
    \/ PreferencesLoad
    \/ BudgetCall
    \/ ChannelSend
    \/ TimePasses

Spec == Init /\ [][Next]_vars

\* ------------------------------------------ one Route call, any preferences
TypePrefChoices ==
    {NoTypePref,
     [present |-> TRUE, enabled |-> FALSE, channels |-> {}, quietHoursOverride |-> FALSE],
     [present |-> TRUE, enabled |-> TRUE, channels |-> {"sms"}, quietHoursOverride |-> FALSE],
     [present |-> TRUE, enabled |-> TRUE, channels |-> {}, quietHoursOverride |-> TRUE]}

QuietWindows == {[start |-> 1320, end |-> 420], [start |-> 540, end |-> 1020]}

PolicyPrefs ==
    {[doNotContact |-> dnc,
      channels |-> [ch \in Channels |-> IF ch = "websocket" THEN ws ELSE TRUE],
      notificationTypes |-> [k \in Kinds |-> tp],
      quietHours |-> [enabled |-> qe, start |-> w.start, end |-> w.end,
                      criticalAlertsBypass |-> cab],
      digestEnabled |-> dig,
      digestFrequency |-> "daily",
      digestHour |-> 9,
      timezone |-> 0,
      email |-> contact,
      phoneNumber |-> IF contact THEN encryptField(Typed("phone")) ELSE Absent,
      address |-> IF contact THEN encryptField(Typed("email")) ELSE Absent,
      token |-> IF contact THEN Typed("token") ELSE Absent,
      phoneVerified |-> contact,
      emailVerified |-> contact,
      devices |-> IF contact THEN <<[deviceId |-> 1, token |-> Typed("token")]>>
                  ELSE <<>>,
      rateLimits |-> [hour |-> CapHour, day |-> CapDay]] :
        dnc \in BOOLEAN, ws \in BOOLEAN, tp \in TypePrefChoices, qe \in BOOLEAN,
        w \in QuietWindows, cab \in BOOLEAN, dig \in BOOLEAN, contact \in BOOLEAN}

PolicyRequests ==
    [userId : {"u1"}, eventType : Kinds, eventSourceId : {"s1"},
     priority : {"undefined", "critical"}]

\* The dedup store is empty or holds the entry of an earlier notification.
EarlierId == MaxCalls + 1
EarlierEntry == [id |-> EarlierId, exp |-> 300]

InitPolicy ==
    /\ InitRouter(Calls)
    /\ IngestorIdle
    /\ RetryIdle
    /\ BudgetIdle
    /\ DigestIdle
    /\ dlq = {}
    /\ dedup \in {[k \in DedupKeys |-> NoEntry],
                  [k \in DedupKeys |-> IF k = <<"u1", "login_attempt", "s1">>
                                       THEN EarlierEntry ELSE NoEntry]}
    /\ tod \in {120, 720}
    /\ \E p \in PolicyPrefs : prefs = [u \in Users |-> p]

NextPolicy ==
    \/ \E rq \in PolicyRequests : Route(1, rq) /\ RouterOnly
    \/ \E up \in BOOLEAN : CheckAndMark(1, up) /\ RouterOnly
    \/ \E up \in BOOLEAN : LoadPreferences(1, up) /\ RouterOnly
    \/ \E ch \in RateChannels : \E up \in BOOLEAN :
          \E histUp \in BOOLEAN :
             ConsumeLimit(1, ch, up, histUp) /\ RouterOnly
    \/ \E ch \in Channels : \E o \in Outcomes(ch) :
          \E histUp \in BOOLEAN :
             SendToChannel(1, ch, o, histUp) /\ RouterOnly

SpecPolicy == InitPolicy /\ [][NextPolicy]_vars

\* --------------------------------------------------------- event ingestor
\* Message values on the security topic: a null value, bytes that are not
\* JSON, an event whose payload has no userId, an event type outside the
\* mapping table, and a mapped event.
MessageValues == {"empty", "malformed", "no_user_id", "unmapped", "user.login.success"}

\* config.kafka.topics.security, the topic of the batch.
topic == "security-events"

\* mapEventToNotification with mapSecurityEvent: null without a userId or
\* for an unmapped event type.
mapEventToNotification(value) ==
    IF value = "user.login.success"
    THEN [mapped |-> TRUE,
          request |-> [userId |-> "u1", eventType |-> "login_attempt",
                       eventSourceId |-> "undefined", priority |-> "medium"]]
    ELSE [mapped |-> FALSE, request |-> NoRequest]

\* The consumer hands a batch to eachBatch; Promise.all starts one handler
\* per message.
EachBatch(b, ids) ==
    /\ batchState = "none"
    /\ batch' = b
    /\ correlationId' = ids
    /\ mpc' = [o \in Offsets |-> "pending"]
    /\ batchState' = "running"
    /\ UNCHANGED <<routerVars, dlq, resolved, retryVars, budgetVars, digestVars>>

\* processMessage up to its first pending await, the handlers starting in
\* offset order. A null value returns; undecodable bytes go to addToDLQ,
\* which only logs, and return; an event that maps to nothing returns; each
\* return is followed by resolveOffset. A mapped event enters route().
ProcessMessage(o) ==
    /\ batchState = "running"
    /\ mpc[o] = "pending"
    /\ \A q \in Offsets : q < o => mpc[q] # "pending"
    /\ LET value == batch[o]
           m == mapEventToNotification(value)
       IN IF value \notin {"empty", "malformed"} /\ m.mapped
          THEN /\ Route(o, m.request)
               /\ mpc' = [mpc EXCEPT ![o] = "routing"]
               /\ UNCHANGED resolved
          ELSE /\ mpc' = [mpc EXCEPT ![o] = "resolved"]
               /\ resolved' = resolved \cup {o}
               /\ UNCHANGED routerVars
    /\ UNCHANGED <<dlq, batch, correlationId, batchState, retryVars,
                   budgetVars, digestVars>>

\* route() returned: processMessage logs success and returns, and the
\* handler calls resolveOffset.
ProcessMessageReturns(o) ==
    /\ batchState = "running"
    /\ mpc[o] = "routing"
    /\ pc[o] = "done"
    /\ mpc' = [mpc EXCEPT ![o] = "resolved"]
    /\ resolved' = resolved \cup {o}
    /\ UNCHANGED <<routerVars, dlq, batch, correlationId, batchState, retryVars,
                   budgetVars, digestVars>>

\* The correlationId of the event at an offset of the batch on the topic, when
\* the producer set one.
CorrelationIds(o) == {<<>>, <<"req", o>>}

\* The message of the error route() raised: that of the preferences load.
errorMessage(c) == IF selected[c].load = "failed" THEN "preferences unavailable" ELSE "none"

\* originalNotificationId of the DLQ record of processMessage:
\* parsedEvent.correlationId ?? `kafka-${offset}`, as the parts of the text.
dlqNotificationId(id, offset) == IF id # <<>> THEN id ELSE <<"kafka", offset>>

\* route() threw: the catch of processMessage writes a DLQ record (the
\* payload has a userId) and returns, then resolveOffset; if the write
\* fails the error is rethrown, caught by the handler in eachBatch and
\* logged, and resolveOffset is skipped.
ProcessMessageCatch(o, dlqUp) ==
    /\ batchState = "running"
    /\ mpc[o] = "routing"
    /\ pc[o] = "thrown"
    /\ IF dlqUp
       THEN /\ dlq' = dlq \cup {[id |-> Cardinality(dlq) + 1,
                                  originalNotificationId |->
                                      dlqNotificationId(correlationId[o], o),
                                  userId |-> "u1",
                                  eventType |-> batch[o], channel |-> "unknown",
                                  failureReason |-> errorMessage(o),
                                  totalAttempts |-> 1, failureHistory |-> <<>>,
                                  status |-> "pending_review"]}
            /\ mpc' = [mpc EXCEPT ![o] = "resolved"]
            /\ resolved' = resolved \cup {o}
       ELSE /\ mpc' = [mpc EXCEPT ![o] = "caught"]
            /\ UNCHANGED <<dlq, resolved>>
    /\ UNCHANGED <<routerVars, batch, correlationId, batchState, retryVars,
                   budgetVars, digestVars>>

\* Every handler has settled: Promise.all fulfils (no handler rejects),
\* eachBatch returns, and with eachBatchAutoResolve the consumer resolves the
\* last offset of the batch.
BatchReturns ==
    /\ batchState = "running"
    /\ \A o \in Offsets : mpc[o] \in {"resolved", "caught"}
    /\ batchState' = "returned"
    /\ resolved' = resolved \cup {BatchSize}
    /\ UNCHANGED <<routerVars, dlq, batch, correlationId, mpc, retryVars,
                   budgetVars, digestVars>>

InitIngest ==
    /\ InitRouter(Offsets)
    /\ dedup = [k \in DedupKeys |-> NoEntry]
    /\ tod = 720
    /\ prefs = [u \in Users |-> DefaultPrefs]
    /\ IngestorIdle
    /\ RetryIdle
    /\ BudgetIdle
    /\ DigestIdle
    /\ dlq = {}

NextIngest ==
    \/ \E b \in [Offsets -> MessageValues] :
          \E ids \in [Offsets -> UNION {CorrelationIds(o) : o \in Offsets}] :
             /\ \A o \in Offsets : ids[o] \in CorrelationIds(o)
             /\ EachBatch(b, ids)
    \/ \E o \in Offsets : ProcessMessage(o)
    \/ \E o \in Offsets : ProcessMessageReturns(o)
    \/ \E o \in Offsets : \E dlqUp \in BOOLEAN : ProcessMessageCatch(o, dlqUp)
    \/ BatchReturns
    \/ \E o \in Offsets : \E up \in BOOLEAN :
          CheckAndMark(o, up) /\ RouterOnly
    \/ \E o \in Offsets : \E up \in BOOLEAN :
          LoadPreferences(o, up) /\ RouterOnly
    \/ \E o \in Offsets : \E ch \in RateChannels :
          ConsumeLimit(o, ch, TRUE, TRUE) /\ RouterOnly
    \/ \E o \in Offsets : \E ch \in Channels : \E out \in Outcomes(ch) :
          SendToChannel(o, ch, out, TRUE) /\ RouterOnly

SpecIngest == InitIngest /\ [][NextIngest]_vars

\* ------------------------------------------------------------ retry engine
\* findByPk, and the row an instance was loaded from.
RecordOf(id) == CHOOSE r \in records : r.notificationId = id

\* instance.save(): the row of the instance is rewritten.
Save(recs, n) == {r \in recs : r.notificationId # n.notificationId} \cup {n}

\* instance.save() after the instance n was changed from what it was when
\* loaded or last saved: only the changed columns of its row are written.
SaveChanged(recs, was, n) ==
    {IF r.notificationId # n.notificationId THEN r
     ELSE [r EXCEPT !.deliveryStatus = IF n.deliveryStatus # was.deliveryStatus
                                       THEN n.deliveryStatus ELSE @,
                    !.retryCount = IF n.retryCount # was.retryCount
                                   THEN n.retryCount ELSE @,
                    !.nextRetryAt = IF n.nextRetryAt # was.nextRetryAt
                                    THEN n.nextRetryAt ELSE @] : r \in recs}

\* The where clause of processRetries.
DueForRetry ==
    {r \in records : /\ r.deliveryStatus = "retrying"
                     /\ r.nextRetryAt # Null
                     /\ r.nextRetryAt <= now
                     /\ r.retryCount < maxRetryAttempts}

\* order: [['nextRetryAt', 'ASC']] over the ids of a set of rows.
OrderedByNextRetryAt(rows) ==
    {q \in [1..Cardinality(rows) -> {r.notificationId : r \in rows}] :
        /\ \A i, j \in DOMAIN q : i # j => q[i] # q[j]
        /\ \A i, j \in DOMAIN q :
              i < j => RecordOf(q[i]).nextRetryAt <= RecordOf(q[j]).nextRetryAt}

\* processRetries: the query (its limit of 100 rows is above any number of
\* rows here); on a store error or an empty answer the tick ends, else the
\* rows are retried one after the other.
ProcessRetries(up) ==
    /\ retry.phase = "idle"
    /\ IF ~up \/ DueForRetry = {}
       THEN retry' = NoRetry
       ELSE \E q \in OrderedByNextRetryAt(DueForRetry) :
               retry' = [phase |-> "next",
                         queue |-> [i \in DOMAIN q |-> RecordOf(q[i])],
                         id |-> 0, by |-> "tick", row |-> NoRow,
                         slot |-> 0, answer |-> "none"]
    /\ UNCHANGED <<routerVars, dlq, ingestVars, cycles, overlap, budgetVars, digestVars>>

\* manualRetry without the test of the row's status.
ManualRetryAnyStatus(id) ==
    /\ retry.phase = "idle"
    /\ \E c \in DOMAIN pc : pc[c] = "idle"
    /\ IF \A r \in records : r.notificationId # id
       THEN /\ retry' = [NoRetry EXCEPT !.answer = "false", !.id = id]
            /\ UNCHANGED records
       ELSE LET n == RecordOf(id)
                reset == [n EXCEPT !.retryCount = 0, !.nextRetryAt = now,
                                   !.deliveryStatus = "retrying"]
            IN /\ records' = Save(records, reset)
               /\ retry' = [phase |-> "next", queue |-> <<reset>>, id |-> 0,
                            by |-> "manual", slot |-> 0, row |-> NoRow,
                            answer |-> "none"]
    /\ UNCHANGED <<now, tod, audit, prefs, log, dedup, rate, allowedSince, pc, req, gate,
                   selected, chan, result, providerCalls, consumed, dlq,
                   ingestVars, cycles, overlap,
                   budgetVars, digestVars>>

\* manualRetry up to retryNotification: without a row of that id, or with a
\* row in a status other than failed or retrying, it returns false; else the
\* row's count is reset and it is saved as retrying, due now.
\* Manual retries come between ticks and stop once MaxRetryCalls Route
\* invocations have been made.
ManualRetry(id) ==
    /\ retry.phase = "idle"
    /\ \E c \in DOMAIN pc : pc[c] = "idle"
    /\ IF \A r \in records : r.notificationId # id
       THEN /\ retry' = [NoRetry EXCEPT !.answer = "false", !.id = id]
            /\ UNCHANGED records
       ELSE LET n == RecordOf(id)
                reset == [n EXCEPT !.retryCount = 0, !.nextRetryAt = now,
                                   !.deliveryStatus = "retrying"]
            IN IF n.deliveryStatus \notin {"failed", "retrying"}
               THEN /\ retry' = [NoRetry EXCEPT !.answer = "false", !.id = id]
                    /\ UNCHANGED records
               ELSE /\ records' = Save(records, reset)
                    /\ retry' = [phase |-> "next", queue |-> <<reset>>, id |-> 0,
                                 by |-> "manual", slot |-> 0, row |-> NoRow,
                                 answer |-> "none"]
    /\ UNCHANGED <<now, tod, audit, prefs, log, dedup, rate, allowedSince, pc, req, gate,
                   selected, chan, result, providerCalls, consumed, dlq,
                   ingestVars, cycles, overlap,
                   budgetVars, digestVars>>

\* retryNotification, entry: the row is routed again as a new request.
RetryNotification(c) ==
    /\ retry.phase = "next"
    /\ FirstIdle(c)
    /\ LET n == Head(retry.queue)
       IN /\ Route(c, [userId |-> n.userId, eventType |-> n.eventType,
                       eventSourceId |-> n.eventSourceId, priority |-> n.priority])
          /\ retry' = [retry EXCEPT !.phase = "routing", !.queue = Tail(@),
                                    !.id = n.notificationId, !.slot = c,
                                    !.row = n]
          /\ cycles' = Append(cycles, [id |-> n.notificationId, by |-> retry.by])
    /\ UNCHANGED <<dlq, ingestVars, overlap, budgetVars, digestVars>>

\* moveToDeadLetterQueue: one DLQ row; a rejected insert is swallowed.
moveToDeadLetterQueue(rows, n, reason, up) ==
    IF up
    THEN rows \cup {[id |-> Cardinality(rows) + 1,
                     originalNotificationId |-> n.notificationId,
                     userId |-> n.userId, eventType |-> n.eventType,
                     channel |-> n.channel, failureReason |-> reason,
                     totalAttempts |-> n.retryCount + 1,
                     failureHistory |-> <<reason>>, status |-> "pending_review"]}
    ELSE rows

\* markSent writing the status of markDelivered.
markSentAsDelivered(n) == [n EXCEPT !.deliveryStatus = "delivered"]

\* markSent, markFailed and markRetrying of a Delivery Record.
markSent(n) == [n EXCEPT !.deliveryStatus = "sent"]

markFailed(n) == [n EXCEPT !.deliveryStatus = "failed"]

markRetrying(n, nextRetryAt) ==
    [n EXCEPT !.deliveryStatus = "retrying", !.retryCount = @ + 1,
              !.nextRetryAt = nextRetryAt]

\* scheduleNextRetry with the attempt limit compared by > instead of >=.
scheduleNextRetryOffByOne(n, t) ==
    LET newRetryCount == n.retryCount + 1
    IN IF newRetryCount > maxRetryAttempts
       THEN [dead |-> TRUE, row |-> markFailed(n)]
       ELSE [dead |-> FALSE,
             row |-> markRetrying(n, t + retryDelaySchedule[newRetryCount])]

\* scheduleNextRetry: at the attempt limit the record goes to the dead-letter
\* store and is marked failed, below it it is marked retrying with the delay
\* scheduled for the new count.
scheduleNextRetry(n, t) ==
    LET newRetryCount == n.retryCount + 1
    IN IF newRetryCount >= maxRetryAttempts
       THEN [dead |-> TRUE, row |-> markFailed(n)]
       ELSE [dead |-> FALSE,
             row |-> markRetrying(n, t + retryDelaySchedule[newRetryCount])]

\* retryNotification after route(): markSent when a channel succeeded, else
\* (or when route() threw, or markSent failed) scheduleNextRetry: at the
\* attempt limit the DLQ row and markFailed, below it markRetrying with the
\* scheduled delay. A failed save leaves retryNotification with an error,
\* which ends the tick; the history store is taken to answer the saves.
\* The invocation's RouteResult is dropped when retryNotification returns;
\* manualRetry then returns true.
RetrySettles(dlqUp) ==
    /\ retry.phase = "routing"
    /\ pc[retry.slot] \in {"done", "thrown"}
    /\ LET n == retry.row
           results == result[retry.slot].results
           succeeded == /\ pc[retry.slot] = "done"
                        /\ \E r \in results : r.status \in {"sent", "delivered"}
           reason == IF pc[retry.slot] = "done" /\ results = {}
                     THEN "Max retries exceeded" ELSE "error"
           next == scheduleNextRetry(n, now)
       IN /\ dlq' = IF ~succeeded /\ next.dead
                    THEN moveToDeadLetterQueue(dlq, n, reason, dlqUp)
                    ELSE dlq
          /\ records' = SaveChanged(records, n,
                                    IF succeeded THEN markSent(n) ELSE next.row)
          /\ retry' = IF retry.queue = <<>>
                      THEN IF retry.by = "manual"
                           THEN [NoRetry EXCEPT !.answer = "true", !.id = retry.id]
                           ELSE NoRetry
                      ELSE [retry EXCEPT !.phase = "next", !.id = 0, !.slot = 0,
                                         !.row = NoRow]
    /\ pc' = [pc EXCEPT ![retry.slot] = "closed"]
    /\ req' = [req EXCEPT ![retry.slot] = NoRequest]
    /\ gate' = [gate EXCEPT ![retry.slot] = NoGate]
    /\ selected' = [selected EXCEPT ![retry.slot] = NoSelection]
    /\ chan' = [chan EXCEPT ![retry.slot] = [ch \in Channels |-> "off"]]
    /\ result' = [result EXCEPT ![retry.slot] = EmptyResult]
    /\ UNCHANGED <<now, tod, audit, prefs, log, dedup, rate, allowedSince, providerCalls,
                   consumed, ingestVars, cycles, overlap,
                   budgetVars, digestVars>>

RetryRequests ==
    [userId : Users, eventType : {"regulatory_alert"},
     eventSourceId : {"s1"}, priority : {"undefined"}]

InitRetry ==
    /\ InitRouter(RetryCalls)
    /\ dedup = [k \in DedupKeys |-> NoEntry]
    /\ tod = 720
    /\ prefs = [u \in Users |-> DefaultPrefs]
    /\ IngestorIdle
    /\ RetryIdle
    /\ BudgetIdle
    /\ DigestIdle
    /\ dlq = {}

\* One notification is routed; the engine's own Route calls follow it.
OriginalRoute == \E rq \in RetryRequests : Route(1, rq) /\ RouterOnly
RetryTick == \E up \in BOOLEAN : ProcessRetries(up)
\* The administrator asks for the first notification or for the last id, which
\* has a record only if the store kept one for the last invocation.
AdminIds == {1, MaxRetryCalls}
AdminRetry == \E id \in AdminIds : ManualRetry(id)
RetryStart == \E c \in RetryCalls : RetryNotification(c)
RetryEnd == \E dlqUp \in BOOLEAN : RetrySettles(dlqUp)
RetryDedupGate == \E c \in RetryCalls : CheckAndMark(c, TRUE) /\ RouterOnly
RetryPreferencesLoad == \E c \in RetryCalls : \E up \in BOOLEAN :
                           LoadPreferences(c, up) /\ RouterOnly
RetryBudgetCall == \E c \in RetryCalls : \E ch \in RateChannels :
                      ConsumeLimit(c, ch, TRUE, TRUE) /\ RouterOnly
RetryChannelSend == \E c \in RetryCalls : \E ch \in Channels : \E out \in Reported(ch) :
                       SendToChannel(c, ch, out, TRUE) /\ RouterOnly
RetryTimePasses == \E t \in Timers : Advance(t) /\ RouterOnly

NextRetry ==
    \/ OriginalRoute
    \/ RetryTick
    \/ AdminRetry
    \/ RetryStart
    \/ RetryEnd
    \/ RetryDedupGate
    \/ RetryPreferencesLoad
    \/ RetryBudgetCall
    \/ RetryChannelSend
    \/ RetryTimePasses

\* The interval timer keeps firing and every started call runs on; nothing
\* obliges an administrator to retry by hand.
SpecRetry ==
    /\ InitRetry
    /\ [][NextRetry]_vars
    /\ WF_vars(RetryTick)
    /\ WF_vars(RetryStart)
    /\ WF_vars(RetryEnd)
    /\ WF_vars(RetryDedupGate \/ RetryPreferencesLoad \/ RetryBudgetCall
                 \/ RetryChannelSend)
    /\ WF_vars(RetryTimePasses)

\* --------------------------------------------------- overlapping retry runs
\* The interval timer of start() calls processRetries whether or not the run
\* before it has returned, and manualRetry runs whenever it is asked: the
\* query of a tick while another run is in flight. The row a running cycle
\* holds is still retrying and due until that cycle saves it.
OverlappingProcessRetries(up) ==
    /\ retry.phase # "idle"
    /\ overlap.phase = "idle"
    /\ \E c \in DOMAIN pc : pc[c] = "idle"
    /\ IF ~up \/ DueForRetry = {}
       THEN overlap' = NoRetry
       ELSE \E q \in OrderedByNextRetryAt(DueForRetry) :
               overlap' = [phase |-> "next",
                           queue |-> [i \in DOMAIN q |-> RecordOf(q[i])],
                           id |-> 0, by |-> "tick", row |-> NoRow,
                           slot |-> 0, answer |-> "none"]
    /\ UNCHANGED <<routerVars, dlq, ingestVars, retry, cycles, budgetVars, digestVars>>

\* retryNotification of the overlapping run, entry.
OverlappingRetryNotification(c) ==
    /\ overlap.phase = "next"
    /\ FirstIdle(c)
    /\ LET n == Head(overlap.queue)
       IN /\ Route(c, [userId |-> n.userId, eventType |-> n.eventType,
                       eventSourceId |-> n.eventSourceId, priority |-> n.priority])
          /\ overlap' = [overlap EXCEPT !.phase = "routing", !.queue = Tail(@),
                                        !.id = n.notificationId, !.slot = c,
                                        !.row = n]
          /\ cycles' = Append(cycles, [id |-> n.notificationId, by |-> overlap.by])
    /\ UNCHANGED <<dlq, ingestVars, retry, budgetVars, digestVars>>

\* retryNotification of the overlapping run after route(): markSent or
\* scheduleNextRetry on the instance this run loaded.
OverlappingRetrySettles(dlqUp) ==
    /\ overlap.phase = "routing"
    /\ pc[overlap.slot] \in {"done", "thrown"}
    /\ LET n == overlap.row
           results == result[overlap.slot].results
           succeeded == /\ pc[overlap.slot] = "done"
                        /\ \E r \in results : r.status \in {"sent", "delivered"}
           reason == IF pc[overlap.slot] = "done" /\ results = {}
                     THEN "Max retries exceeded" ELSE "error"
           next == scheduleNextRetry(n, now)
       IN /\ dlq' = IF ~succeeded /\ next.dead
                    THEN moveToDeadLetterQueue(dlq, n, reason, dlqUp)
                    ELSE dlq
          /\ records' = SaveChanged(records, n,
                                    IF succeeded THEN markSent(n) ELSE next.row)
          /\ overlap' = IF overlap.queue = <<>>
                        THEN NoRetry
                        ELSE [overlap EXCEPT !.phase = "next", !.id = 0, !.slot = 0,
                                             !.row = NoRow]
    /\ pc' = [pc EXCEPT ![overlap.slot] = "closed"]
    /\ req' = [req EXCEPT ![overlap.slot] = NoRequest]
    /\ gate' = [gate EXCEPT ![overlap.slot] = NoGate]
    /\ selected' = [selected EXCEPT ![overlap.slot] = NoSelection]
    /\ chan' = [chan EXCEPT ![overlap.slot] = [ch \in Channels |-> "off"]]
    /\ result' = [result EXCEPT ![overlap.slot] = EmptyResult]
    /\ UNCHANGED <<now, tod, audit, prefs, log, dedup, rate, allowedSince, providerCalls,
                   consumed, ingestVars, retry, cycles, budgetVars, digestVars>>

OverlapCalls == 1..MaxOverlapCalls

\* A kind with a dedup window and a kind without one: the engine's Route
\* calls for a record carry the user, kind and source id of the original.
OverlapRequests ==
    [userId : Users, eventType : {"login_attempt", "regulatory_alert"},
     eventSourceId : {"s1"}, priority : {"undefined"}]

InitOverlap ==
    /\ InitRouter(OverlapCalls)
    /\ dedup = [k \in DedupKeys |-> NoEntry]
    /\ tod = 720
    /\ prefs = [u \in Users |-> DefaultPrefs]
    /\ IngestorIdle
    /\ RetryIdle
    /\ BudgetIdle
    /\ DigestIdle
    /\ dlq = {}

\* One notification is routed and retried by hand; ticks fire at any moment,
\* also while a run is in flight.
NextOverlap ==
    \/ \E rq \in OverlapRequests : Route(1, rq) /\ RouterOnly
    \/ ManualRetry(1)
    \/ ProcessRetries(TRUE)
    \/ OverlappingProcessRetries(TRUE)
    \/ \E c \in OverlapCalls : RetryNotification(c)
    \/ \E c \in OverlapCalls : OverlappingRetryNotification(c)
    \/ RetrySettles(TRUE)
    \/ OverlappingRetrySettles(TRUE)
    \/ \E c \in OverlapCalls : CheckAndMark(c, TRUE) /\ RouterOnly
    \/ \E c \in OverlapCalls : LoadPreferences(c, TRUE) /\ RouterOnly
    \/ \E c \in OverlapCalls : \E ch \in RateChannels :
          ConsumeLimit(c, ch, TRUE, TRUE) /\ RouterOnly
    \/ \E c \in OverlapCalls : \E ch \in Channels : \E out \in Reported(ch) :
          SendToChannel(c, ch, out, TRUE) /\ RouterOnly
    \/ \E t \in Timers : Advance(t) /\ RouterOnly

SpecOverlap == InitOverlap /\ [][NextOverlap]_vars

\* ----------------------------------------------------------- digest engine
\* getDigestKey: the list of a frequency; anything else maps to the daily list.
getDigestKey(frequency) ==
    IF frequency \in DigestFrequencies THEN frequency ELSE "daily"

\* The notification ids of the entries of a list.
Entries(list) == {list[i] : i \in DOMAIN list}

\* queueForDigest: nothing for 'immediate'; else RPUSH of the entry (then
\* EXPIRE, 7 days: beyond the horizon of the model). A store error is
\* swallowed. A notification is queued while it is in no list.
QueueForDigest(id, frequency, up) ==
    /\ pc[id] # "idle"
    /\ \A f \in DigestFrequencies : id \notin Entries(digest[f])
    /\ Len(digest[getDigestKey(frequency)]) < MaxDigest
    /\ digest' = IF frequency = "immediate" \/ ~up
                 THEN digest
                 ELSE [digest EXCEPT ![getDigestKey(frequency)] = Append(@, id)]
    /\ UNCHANGED <<routerVars, dlq, ingestVars, retryVars, budgetVars, dg>>

\* findUsersForDigest for the one user: within the first minutes of an hour,
\* digest enabled, the frequency's rule met, and a non-empty list.
findUsersForDigest(p, t, dayOfWeek, up) ==
    LET currentHour == t \div 60
        currentMinute == t % 60
        frequency == p.digestFrequency
        shouldSend == CASE frequency = "hourly" -> currentMinute = 0
                        [] frequency = "daily" -> p.digestHour = currentHour
                        [] frequency = "weekly" ->
                              dayOfWeek = 1 /\ p.digestHour = currentHour
                        [] OTHER -> FALSE
    IN /\ currentMinute <= 5
       /\ up
       /\ p.digestEnabled
       /\ shouldSend
       /\ Len(digest[getDigestKey(frequency)]) > 0

\* processDigests, one tick: sendDigestForUser is started for the user found.
ProcessDigests(dayOfWeek, up) ==
    /\ dg.phase = "idle"
    /\ dg' = IF findUsersForDigest(prefs["u1"], tod, dayOfWeek, up)
             THEN [NoDigestRun EXCEPT !.phase = "read",
                                      !.frequency = prefs["u1"].digestFrequency]
             ELSE NoDigestRun
    /\ UNCHANGED <<routerVars, dlq, ingestVars, retryVars, budgetVars, digest>>

\* forceSendDigest: the user's frequency is read and sendDigestForUser started;
\* a failed preferences load ends the operation.
ForceSendDigest(up) ==
    /\ dg.phase = "idle"
    /\ dg' = IF up
             THEN [NoDigestRun EXCEPT !.phase = "read",
                                      !.frequency = prefs["u1"].digestFrequency]
             ELSE NoDigestRun
    /\ UNCHANGED <<routerVars, dlq, ingestVars, retryVars, budgetVars, digest>>

\* sendDigestForUser, LRANGE 0 -1: an empty list ends the run, a store error
\* leaves it with an exception.
DigestRead(up) ==
    /\ dg.phase = "read"
    /\ dg' = IF ~up \/ digest[getDigestKey(dg.frequency)] = <<>>
             THEN NoDigestRun
             ELSE [dg EXCEPT !.phase = "mail",
                             !.entries = digest[getDigestKey(dg.frequency)]]
    /\ UNCHANGED <<routerVars, dlq, ingestVars, retryVars, budgetVars, digest>>

\* sendDigestForUser, findByUserId and emailHandler.sendDigest: without a
\* preferences document or an email address the run ends; else the adapter
\* answers 'sent' or 'failed', and after a send it logs the address it sent to.
DigestMail(up, status) ==
    /\ dg.phase = "mail"
    /\ IF ~up \/ ~prefs["u1"].email
       THEN /\ dg' = NoDigestRun
            /\ UNCHANGED log
       ELSE /\ dg' = [dg EXCEPT !.phase = "mailed", !.status = status]
            /\ log' = IF status = "sent"
                       THEN log \cup {[message |-> "Digest email sent",
                                       value |-> getDecryptedEmail(prefs["u1"])]}
                       ELSE log
    /\ UNCHANGED <<now, tod, audit, prefs, dedup, rate, allowedSince, pc, req, gate,
                   selected, chan, result, records, providerCalls, consumed,
                   dlq, ingestVars, retryVars, budgetVars, digest>>

\* The test of the adapter's answer left out: the list is deleted after
\* every send.
DigestClearAlways(up) ==
    /\ dg.phase = "mailed"
    /\ IF ~up
       THEN /\ dg' = NoDigestRun
            /\ UNCHANGED digest
       ELSE /\ digest' = [digest EXCEPT ![getDigestKey(dg.frequency)] = <<>>]
            /\ dg' = [dg EXCEPT !.phase = "mark", !.left = dg.entries]
    /\ UNCHANGED <<routerVars, dlq, ingestVars, retryVars, budgetVars>>

\* sendDigestForUser after the send: on 'sent' DEL of the list (a store error
\* leaves the run with an exception), on any other status only a warning; the
\* status of a run that ended so stays readable until the next run starts.
DigestClear(up) ==
    /\ dg.phase = "mailed"
    /\ IF dg.status # "sent"
       THEN /\ dg' = [NoDigestRun EXCEPT !.status = dg.status]
            /\ UNCHANGED digest
       ELSE IF ~up
       THEN /\ dg' = NoDigestRun
            /\ UNCHANGED digest
       ELSE /\ digest' = [digest EXCEPT ![getDigestKey(dg.frequency)] = <<>>]
            /\ dg' = [dg EXCEPT !.phase = "mark", !.left = dg.entries]
    /\ UNCHANGED <<routerVars, dlq, ingestVars, retryVars, budgetVars>>

\* sendDigestForUser, one NotificationEvent.update of the loop: the rows with
\* the entry's notification id get status delivered; a store error leaves
\* the run with an exception.
DigestMark(up) ==
    /\ dg.phase = "mark"
    /\ IF ~up
       THEN /\ dg' = NoDigestRun
            /\ UNCHANGED records
       ELSE /\ records' = {IF r.notificationId = Head(dg.left)
                           THEN [r EXCEPT !.deliveryStatus = "delivered"] ELSE r
                             : r \in records}
            /\ dg' = IF Tail(dg.left) = <<>> THEN NoDigestRun
                     ELSE [dg EXCEPT !.left = Tail(@)]
    /\ UNCHANGED <<now, tod, audit, prefs, log, dedup, rate, allowedSince, pc, req, gate,
                   selected, chan, result, providerCalls, consumed, dlq,
                   ingestVars, retryVars, budgetVars, digest>>

\* Quiet hours 22:00 to 10:00 with the global bypass off, digest mode on,
\* rate caps that every invocation of a behaviour stays within.
DigestPrefs ==
    {[DefaultPrefs EXCEPT !.quietHours = [enabled |-> TRUE, start |-> 1320,
                                          end |-> 600,
                                          criticalAlertsBypass |-> FALSE],
                          !.digestEnabled = TRUE,
                          !.rateLimits = [hour |-> MaxDigestCalls,
                                          day |-> MaxDigestCalls],
                          !.email = e, !.emailVerified = e] : e \in BOOLEAN}

DigestCalls == 1..MaxDigestCalls

\* A digest-eligible kind, deferred in quiet hours, and a critical kind that
\* has no dedup window, sent at once.
DigestRequests ==
    [userId : Users, eventType : {"login_attempt", "regulatory_alert"},
     eventSourceId : {"s1"}, priority : {"undefined"}]

InitDigest ==
    /\ InitRouter(DigestCalls)
    /\ IngestorIdle
    /\ RetryIdle
    /\ BudgetIdle
    /\ DigestIdle
    /\ dlq = {}
    /\ dedup = [k \in DedupKeys |-> NoEntry]
    /\ tod = 540
    /\ prefs \in [Users -> DigestPrefs]

\* Route is invoked, by its callers and by the retry engine, one invocation
\* after the other; the last slot is left to the retry engine.
NoRouteRunning == \A c \in DOMAIN pc : pc[c] \in {"idle", "done", "thrown", "closed"}

NextDigest ==
    \/ \E c \in DigestCalls : \E rq \in DigestRequests :
          /\ c < MaxDigestCalls
          /\ NoRouteRunning
          /\ FirstIdle(c)
          /\ Route(c, rq)
          /\ RouterOnly
    \/ \E c \in DigestCalls : CheckAndMark(c, TRUE) /\ RouterOnly
    \/ \E c \in DigestCalls : LoadPreferences(c, TRUE) /\ RouterOnly
    \/ \E c \in DigestCalls : \E ch \in RateChannels :
          ConsumeLimit(c, ch, TRUE, TRUE) /\ RouterOnly
    \/ \E c \in DigestCalls : \E ch \in Channels :
          \E o \in Reported(ch) :
             SendToChannel(c, ch, o, TRUE) /\ RouterOnly
    \/ \E id \in DigestCalls : ManualRetry(id)
    \/ \E c \in DigestCalls : NoRouteRunning /\ RetryNotification(c)
    \/ RetrySettles(TRUE)
    \/ \E id \in DigestCalls :
          \E f \in {"immediate", "daily"} : \E up \in BOOLEAN :
             QueueForDigest(id, f, up)
    \/ \E dayOfWeek \in {1, 2} : \E up \in BOOLEAN : ProcessDigests(dayOfWeek, up)
    \/ \E up \in BOOLEAN : ForceSendDigest(up)
    \/ \E up \in BOOLEAN : DigestRead(up)
    \/ \E up \in BOOLEAN : \E status \in {"sent", "failed"} : DigestMail(up, status)
    \/ \E up \in BOOLEAN : DigestClear(up)
    \/ \E up \in BOOLEAN : DigestMark(up)

SpecDigest == InitDigest /\ [][NextDigest]_vars

\* ------------------------------------------------------ direct budget calls
\* rateLimiter.consumeLimit called for user u and channel ch with the user's
\* caps: the counters before the call, the caps and the answer are kept.
ConsumeBudget(u, ch, up) ==
    /\ reply.steps < MaxBudgetSteps
    /\ LET key == <<u, ch>>
           limits == prefs[u].rateLimits
           answer == consumeLimit(rate[key], limits.hour, limits.day, now, up)
       IN /\ rate' = [rate EXCEPT ![key] = answer.ctr]
          /\ allowedSince' = IF answer.ctr # rate[key]
                             THEN [allowedSince EXCEPT ![key].hour = @ + 1,
                                                       ![key].day = @ + 1]
                             ELSE allowedSince
          /\ reply' = [present |-> TRUE, up |-> up, allowed |-> answer.allowed,
                       resetAt |-> answer.resetAt,
                       hourCount |-> rate[key].hour.n, dayCount |-> rate[key].day.n,
                       hourLimit |-> limits.hour, dayLimit |-> limits.day,
                       at |-> now, steps |-> reply.steps + 1]
    /\ UNCHANGED <<now, tod, audit, prefs, log, dedup, pc, req, gate, selected, chan, result,
                   records, providerCalls, consumed, dlq, ingestVars, retryVars,
                   digestVars, life>>

\* Time passes between two calls.
BudgetElapse(d) ==
    /\ reply.steps < MaxBudgetSteps
    /\ Elapse(now + d)
    /\ reply' = [reply EXCEPT !.steps = @ + 1]
    /\ UNCHANGED <<dlq, ingestVars, retryVars, digestVars, life>>

\* The user's hourly cap is the default or one above it.
BudgetPrefs ==
    {[DefaultPrefs EXCEPT !.rateLimits.hour = h] : h \in {CapHour, CapHour + 1}}

InitBudget ==
    /\ InitRouter(Calls)
    /\ IngestorIdle
    /\ RetryIdle
    /\ BudgetIdle
    /\ DigestIdle
    /\ dlq = {}
    /\ dedup = [k \in DedupKeys |-> NoEntry]
    /\ tod = 720
    /\ prefs \in [Users -> BudgetPrefs]

NextBudget ==
    \/ \E u \in Users : \E ch \in RateChannels : \E up \in BOOLEAN :
          ConsumeBudget(u, ch, up)
    \/ \E d \in {RATE_LIMIT_HOUR \div 2, RATE_LIMIT_HOUR} : BudgetElapse(d)

SpecBudget == InitBudget /\ [][NextBudget]_vars

\* -------------------------------------------- preference updates and devices
\* PUT /preferences, the contact fields of the update: a phone number or an
\* email address in the body is encrypted before it is put into the document
\* ("none": the body has no such field); a failed save leaves the document.
UpdatePreferences(u, phoneNumber, address, up) ==
    /\ prefs' = IF ~up THEN prefs
                ELSE [prefs EXCEPT
                        ![u].phoneNumber = IF phoneNumber = "none" THEN @
                                           ELSE encryptField(Typed(phoneNumber)),
                        ![u].address = IF address = "none" THEN @
                                       ELSE encryptField(Typed(address)),
                        ![u].email = IF address = "none" THEN @ ELSE TRUE]
    /\ UNCHANGED <<now, tod, audit, log, dedup, rate, allowedSince, pc, req, gate,
                   selected, chan, result, records, providerCalls, consumed,
                   dlq, ingestVars, retryVars, budgetVars, digestVars>>

\* The device limit of the registration route.
MaxDevices == 10

\* findIndex: the position of the entry with that device id, 0 for none.
findIndex(devices, deviceId) ==
    IF \E i \in DOMAIN devices : devices[i].deviceId = deviceId
    THEN CHOOSE i \in DOMAIN devices :
            /\ devices[i].deviceId = deviceId
            /\ \A j \in DOMAIN devices : devices[j].deviceId = deviceId => i <= j
    ELSE 0

\* The registration without the limit: a new device is always appended.
registerNoLimit(devices, deviceId, token) ==
    LET existingIndex == findIndex(devices, deviceId)
        deviceData == [deviceId |-> deviceId, token |-> Typed(token)]
    IN IF existingIndex > 0
       THEN [devices EXCEPT ![existingIndex] = deviceData]
       ELSE Append(devices, deviceData)

\* The device list after POST /preferences/devices: the entry of a known
\* device id is overwritten where it stands; a new one is pushed at the end,
\* after a shift() when the list is at the limit.
register(devices, deviceId, token) ==
    LET existingIndex == findIndex(devices, deviceId)
        deviceData == [deviceId |-> deviceId, token |-> Typed(token)]
    IN IF existingIndex > 0
       THEN [devices EXCEPT ![existingIndex] = deviceData]
       ELSE Append(IF Len(devices) >= MaxDevices THEN Tail(devices) ELSE devices,
                   deviceData)

\* POST /preferences/devices: the device entry is added or replaced, with the
\* token of the body as it came.
RegisterDevice(u, deviceId, token, up) ==
    /\ prefs' = IF ~up THEN prefs
                ELSE [prefs EXCEPT ![u].token = Typed(token),
                                   ![u].devices = register(@, deviceId, token)]
    /\ UNCHANGED <<now, tod, audit, log, dedup, rate, allowedSince, pc, req, gate,
                   selected, chan, result, records, providerCalls, consumed,
                   dlq, ingestVars, retryVars, budgetVars, digestVars>>

\* DELETE /preferences/devices/:deviceId: the entries with that id are
\* filtered out and the document is saved.
UnregisterDevice(u, deviceId, up) ==
    /\ prefs' = IF ~up THEN prefs
                ELSE [prefs EXCEPT ![u].devices =
                         SelectSeq(@, LAMBDA d : d.deviceId # deviceId)]
    /\ UNCHANGED <<now, tod, audit, log, dedup, rate, allowedSince, pc, req, gate,
                   selected, chan, result, records, providerCalls, consumed,
                   dlq, ingestVars, retryVars, budgetVars, digestVars>>

\* POST /preferences/unsubscribe: do-not-contact is switched on in the user's
\* document; a failed save leaves the document.
Unsubscribe(u, up) ==
    /\ prefs' = IF ~up THEN prefs ELSE [prefs EXCEPT ![u].doNotContact = TRUE]
    /\ UNCHANGED <<now, tod, audit, log, dedup, rate, allowedSince, pc, req, gate,
                   selected, chan, result, records, providerCalls, consumed,
                   dlq, ingestVars, retryVars, budgetVars, digestVars>>

\* A new user who receives every kind by push and has digest mode on: no
\* contact field is stored yet.
PrivacyPrefs ==
    [OnChannel("push") EXCEPT !.digestEnabled = TRUE,
                              !.email = FALSE,
                              !.phoneNumber = Absent,
                              !.address = Absent,
                              !.token = Absent,
                              !.phoneVerified = FALSE,
                              !.emailVerified = FALSE,
                              !.devices = <<>>]

InitPrivacy ==
    /\ InitRouter(Calls)
    /\ IngestorIdle
    /\ RetryIdle
    /\ BudgetIdle
    /\ DigestIdle
    /\ dlq = {}
    /\ dedup = [k \in DedupKeys |-> NoEntry]
    /\ tod = 720
    /\ prefs = [u \in Users |-> PrivacyPrefs]

NextPrivacy ==
    \/ \E u \in Users : \E phoneNumber \in {"none", "phone"} :
          \E address \in {"none", "email"} : \E up \in BOOLEAN :
             UpdatePreferences(u, phoneNumber, address, up)
    \/ \E u \in Users : \E up \in BOOLEAN : RegisterDevice(u, 1, "token", up)
    \/ \E u \in Users : \E up \in BOOLEAN : Unsubscribe(u, up)
    \/ \E c \in Calls : \E rq \in Requests :
          NoRouteRunning /\ FirstIdle(c) /\ Route(c, rq) /\ RouterOnly
    \/ \E c \in Calls : CheckAndMark(c, TRUE) /\ RouterOnly
    \/ \E c \in Calls : LoadPreferences(c, TRUE) /\ RouterOnly
    \/ \E c \in Calls : \E ch \in RateChannels :
          ConsumeLimit(c, ch, TRUE, TRUE) /\ RouterOnly
    \/ \E c \in Calls : \E ch \in Channels : \E o \in Outcomes(ch) :
          SendToChannel(c, ch, o, TRUE) /\ RouterOnly
    \/ \E id \in Calls : QueueForDigest(id, "daily", TRUE)
    \/ ForceSendDigest(TRUE)
    \/ DigestRead(TRUE)
    \/ \E status \in {"sent", "failed"} : DigestMail(TRUE, status)
    \/ DigestClear(TRUE)
    \/ DigestMark(TRUE)

SpecPrivacy == InitPrivacy /\ [][NextPrivacy]_vars

\* ================================================================== claims
\* Invocation c reached the adapter of channel ch.
Called(c, ch) == \E x \in providerCalls : x[1] = c /\ x[2] = ch

NoEffects(c) ==
    /\ \A ch \in Channels : ~Called(c, ch)
    /\ \A ch \in Channels : <<c, ch>> \notin consumed
    /\ \A r \in records : r.notificationId # c

SameKey(a, b) ==
    generateKey(req[a].userId, req[a].eventType, req[a].eventSourceId)
      = generateKey(req[b].userId, req[b].eventType, req[b].eventSourceId)

\* Both dedup checks were answered by the store, and b's came inside the window
\* opened by a's registration.
InsideWindow(a, b) ==
    /\ gate[a].kind = "registered"
    /\ gate[b].kind \in {"registered", "duplicate"}
    /\ gate[a].at <= gate[b].at
    /\ (gate[b].at - gate[a].at) * 1000 < EVENT_TYPE_CONFIGS[req[a].eventType].dedupWindowMs

\* C1: of two Route invocations with the same (user, kind, source id) whose
\* dedup checks both fall inside the window and are answered by the store,
\* exactly one passes the gate; the other is a duplicate of it, makes no
\* provider call, consumes no rate budget and persists no Delivery Record.
C1_ExactlyOnePasses ==
    \A a, b \in Calls :
        (a # b /\ SameKey(a, b) /\ InsideWindow(a, b))
            => /\ gate[b].kind = "duplicate"
               /\ gate[b].of = a
               /\ pc[b] = "done"
               /\ NoEffects(b)

C1_Witness ==
    \E a, b \in Calls :
        /\ a # b /\ SameKey(a, b) /\ InsideWindow(a, b)
        /\ gate[b].kind = "duplicate"
        /\ pc[a] = "sending"
        /\ \E ch \in Channels : Called(a, ch) \/ <<a, ch>> \in consumed

QuietCase(c) ==
    LET p == prefs[req[c].userId] IN
    /\ pc[c] = "done"
    /\ gate[c].kind # "duplicate"
    /\ ~p.doNotContact
    /\ effectivePriority(req[c]) # "critical"
    /\ isInQuietHours(p, tod)
    /\ ~EVENT_TYPE_CONFIGS[req[c].eventType].bypassQuietHours
    /\ ~(p.notificationTypes[req[c].eventType].present
         /\ p.notificationTypes[req[c].eventType].quietHoursOverride)

\* C8: a non-critical Route call inside the quiet-hours window, for a kind
\* without global bypass and a user without per-kind override, makes no
\* provider call and returns queued or digest_queued (digest_queued exactly
\* when the kind is digest-eligible and the user has digest enabled), whatever
\* the critical-alerts-bypass flag.
C8_QuietHoursDefers ==
    \A c \in Calls :
        QuietCase(c)
            => /\ \A ch \in Channels : ~Called(c, ch)
               /\ result[c].queued \/ result[c].digestQueued
               /\ result[c].digestQueued
                    <=> (EVENT_TYPE_CONFIGS[req[c].eventType].allowDigest
                         /\ prefs[req[c].userId].digestEnabled)

OptOutSkip == [channel |-> "websocket", reason |-> "User has opted out of notifications",
               detail |-> Null]

\* C10 as stated: with do-not-contact enabled every Route call makes no
\* provider call, consumes no budget, persists no record and returns with a
\* skip entry giving the opt-out reason.
C10_AlwaysOptOutSkip ==
    \A c \in Calls :
        (pc[c] \in {"done", "thrown"} /\ prefs[req[c].userId].doNotContact)
            => /\ NoEffects(c)
               /\ pc[c] = "done"
               /\ OptOutSkip \in result[c].skippedChannels

\* C10, amended: with do-not-contact enabled Route makes no provider call,
\* consumes no budget and persists no record; it returns with the opt-out skip
\* entry unless the dedup gate already rejected it as a duplicate or the
\* preferences load failed.
C10_DoNotContact ==
    \A c \in Calls :
        (pc[c] # "idle" /\ prefs[req[c].userId].doNotContact)
            => /\ NoEffects(c)
               /\ pc[c] # "sending"
               /\ (pc[c] = "done" /\ gate[c].kind # "duplicate")
                     => result[c] = [EmptyResult EXCEPT !.skippedChannels = {OptOutSkip}]

C10_Witness ==
    \E c \in Calls :
        /\ pc[c] = "done"
        /\ prefs[req[c].userId].doNotContact
        /\ effectivePriority(req[c]) = "critical"
        /\ OptOutSkip \in result[c].skippedChannels

\* A message has been pulled and the handler is done with it.
Ended(o) == o \in DOMAIN mpc /\ mpc[o] \in {"resolved", "caught"}

RouteCompleted(o) == mapEventToNotification(batch[o]).mapped /\ pc[o] = "done"

DeadLettered(o) ==
    \E d \in dlq : d.originalNotificationId = dlqNotificationId(correlationId[o], o)

\* C3: every message the handler is done with ended in a completed Route
\* call, in a DLQ record written for it, or in the batch handler failing;
\* only an event type outside the mapping table may end with none of these,
\* and an undecodable value or a payload without userId ends with a DLQ
\* record marked malformed or with the handler failing.
C3_EveryMessageAccounted ==
    \A o \in Offsets :
        Ended(o) =>
            /\ batch[o] # "unmapped" =>
                  RouteCompleted(o) \/ DeadLettered(o) \/ batchState = "threw"
            /\ batch[o] \in {"malformed", "no_user_id"} =>
                  \/ \E d \in dlq : /\ d.originalNotificationId
                                          = dlqNotificationId(correlationId[o], o)
                                    /\ d.eventType = "malformed"
                  \/ batchState = "threw"

\* The handler's processing of the message has finished normally.
Finished(o) == o \in DOMAIN mpc /\ mpc[o] = "resolved"

\* C4: every message whose offset is at or below a resolved offset has
\* finished processing.
C4_ResolvedOnlyWhenFinished ==
    \A q \in resolved : \A o \in Offsets : o <= q => Finished(o)

\* C5: a message whose Route call threw and whose DLQ write failed has no
\* resolved offset at or above its own, and the batch handler does not
\* return normally.
C5_DlqFailureHalts ==
    \A o \in Offsets :
        (o \in DOMAIN mpc /\ mpc[o] = "caught") =>
            /\ \A q \in resolved : q < o
            /\ batchState # "returned"

\* retryNotification calls made for a Delivery Record, and those among them
\* started by manualRetry.
CyclesOf(id) == Cardinality({i \in DOMAIN cycles : cycles[i].id = id})
ManualOf(id) ==
    Cardinality({i \in DOMAIN cycles : cycles[i].id = id /\ cycles[i].by = "manual"})

\* Route persisted the record as failed after the adapter failed, and the
\* retry engine has not touched it.
FailedByRoute(id) ==
    /\ \E r \in records : r.notificationId = id /\ r.deliveryStatus = "failed"
    /\ \E x \in providerCalls : x[1] = id /\ x[3] = "failed"
    /\ CyclesOf(id) = 0

\* C6: a Delivery Record persisted by Route with status failed after a
\* provider failure is eventually re-driven by the retry engine, while the
\* ticks keep firing.
C6_FailedRecordRedriven ==
    \A id \in RetryCalls : [](FailedByRoute(id) => <>(CyclesOf(id) > 0))

DeadLettersOf(id) == {d \in dlq : d.originalNotificationId = id}

\* C7: with every provider call failing, a Delivery Record that the retry
\* engine has taken through 5 retry cycles is in status failed and has
\* exactly one DLQ record, with total_attempts 5 and a failure history of 5
\* entries.
C7_FiveCyclesDeadLetter ==
    \A r \in records :
        (/\ \A x \in providerCalls : x[3] = "failed"
         /\ CyclesOf(r.notificationId) = maxRetryAttempts
         /\ ManualOf(r.notificationId) <= 1
         /\ retry.phase = "idle")
        => /\ r.deliveryStatus = "failed"
           /\ Cardinality(DeadLettersOf(r.notificationId)) = 1
           /\ \A d \in DeadLettersOf(r.notificationId) :
                 /\ d.totalAttempts = maxRetryAttempts
                 /\ Len(d.failureHistory) = maxRetryAttempts

\* Route skipped channel ch of invocation c for a missing contact precondition.
SkippedForContact(c, ch) ==
    /\ ch \in RateChannels
    /\ [channel |-> ch, reason |-> ContactReason(ch), detail |-> Null]
          \in result[c].skippedChannels

\* C12: a channel attempt skipped because the contact precondition is missing
\* consumed no rate budget: the invocation made no counted call on the
\* channel's hour and day counters.
C12_SkipConsumesNothing ==
    \A c \in Calls : \A ch \in RateChannels :
        SkippedForContact(c, ch) => <<c, ch>> \notin consumed

\* Route invoked the adapter of channel ch for invocation c, or the rate
\* budget refused the channel.
Attempted(c, ch) ==
    \/ Called(c, ch)
    \/ \E e \in result[c].skippedChannels :
          e.channel = ch /\ e.reason = "Rate limit exceeded"

\* C13: after Route returns, with the history store available, there is
\* exactly one Delivery Record carrying the invocation's notification id for
\* every channel on which an adapter was invoked or the budget refused.
C13_OneRecordPerAttempt ==
    \A c \in Calls : \A ch \in Channels :
        (pc[c] = "done" /\ Attempted(c, ch))
            => Cardinality({r \in records : r.notificationId = c /\ r.channel = ch}) = 1

\* In this step the budget call of invocation c on channel ch returned while
\* both counters were below their caps and neither was incremented: the rate
\* store did not answer.
RateStoreFailed(c, ch) ==
    LET key == <<req[c].userId, ch>>
        limits == prefs[req[c].userId].rateLimits
    IN /\ chan[c][ch] = "rate"
       /\ chan'[c][ch] # "rate"
       /\ rate[key].hour.n < limits.hour
       /\ rate[key].day.n < limits.day
       /\ rate'[key] = rate[key]

\* C19: a dedup-store error is taken as 'not duplicate' (Route goes on to the
\* preferences load, nothing skipped) and a rate-store error as 'allowed'
\* (the channel attempt goes on to its send, the invocation keeps running):
\* Route does not fail on either.
C19_StoresFailOpen ==
    [][\A c \in Calls :
          /\ (pc[c] = "dedup" /\ gate'[c].kind = "error")
                => (pc'[c] = "prefs" /\ result'[c] = EmptyResult)
          /\ \A ch \in RateChannels :
                RateStoreFailed(c, ch)
                   => (chan'[c][ch] = "send" /\ pc'[c] = "sending"
                         /\ result'[c] = result[c])]_vars

\* An invocation whose dedup call and whose budget call both failed went on
\* to invoke the adapter.
C19_Witness ==
    \E c \in Calls : \E ch \in RateChannels :
        /\ gate[c].kind = "error"
        /\ Called(c, ch)
        /\ <<c, ch>> \notin consumed

\* C20: when the preferences load of an invocation failed, the invocation
\* ended by raising the error, and it invoked no adapter, consumed no rate
\* budget and stored no Delivery Record.
C20_PreferencesFailureAborts ==
    \A c \in Calls :
        selected[c].load = "failed" => (pc[c] = "thrown" /\ NoEffects(c))

\* An invocation passed the dedup gate and then failed to load preferences.
C20_Witness ==
    \E c \in Calls : selected[c].load = "failed" /\ gate[c].kind = "registered"

\* C17: every Delivery Record has a retry count of at most the attempt limit,
\* and every record in status retrying has its next-attempt instant set and a
\* retry count below the limit.
C17_RetryCountBounded ==
    \A r \in records :
        /\ r.retryCount <= maxRetryAttempts
        /\ r.deliveryStatus = "retrying"
              => (r.nextRetryAt # Null /\ r.retryCount < maxRetryAttempts)

\* A record is waiting for its last automatic attempt.
C17_Witness ==
    \E r \in records :
        r.deliveryStatus = "retrying" /\ r.retryCount = maxRetryAttempts - 1

\* C18: with the rate store available, a budget call that finds the hour
\* counter at the hourly cap is refused with a reset instant at most one hour
\* after the call, and a call that finds the hour counter one below its cap
\* and the day counter below its cap is allowed.
C18_RefusedAtCapAllowedBelow ==
    (reply.present /\ reply.up) =>
        /\ reply.hourCount = reply.hourLimit
              => (~reply.allowed /\ reply.resetAt <= reply.at + RATE_LIMIT_HOUR)
        /\ (reply.hourCount = reply.hourLimit - 1 /\ reply.dayCount < reply.dayLimit)
              => reply.allowed

\* A call was refused at the hourly cap half-way through the hour window.
C18_Witness ==
    /\ reply.present /\ reply.up
    /\ reply.hourCount = reply.hourLimit
    /\ ~reply.allowed
    /\ reply.resetAt < reply.at + RATE_LIMIT_HOUR

\* C11: when Route has returned with digest_queued set, an entry carrying the
\* notification's id is in the digest list of the user's digest frequency.
C11_DigestQueuedAppended ==
    \A c \in DOMAIN pc :
        (pc[c] = "done" /\ result[c].digestQueued)
            => c \in Entries(digest[getDigestKey(prefs[req[c].userId].digestFrequency)])

\* C14: when the Email adapter's answer for a digest is not 'sent', the run
\* ends leaving the digest list as it is, with every entry of the summary
\* still in it, and updating no Delivery Record.
C14_FailedSendKeepsList ==
    [][(dg.phase = "mailed" /\ dg.status # "sent" /\ dg' # dg)
          => /\ digest' = digest
             /\ records' = records
             /\ dg'.phase = "idle"
             /\ Entries(dg.entries) \subseteq Entries(digest'[getDigestKey(dg.frequency)])]_vars

\* A run ended on a failed send; the list still holds an entry whose Delivery
\* Record is not delivered.
C14_Witness ==
    /\ dg.phase = "idle"
    /\ dg.status = "failed"
    /\ \E r \in records :
          /\ r.notificationId \in Entries(digest[getDigestKey(dg.frequency)])
          /\ r.deliveryStatus # "delivered"

\* C15: an entry leaves a digest list only as part of a summary email whose
\* send returned 'sent'; an entry appended between the read of the list and
\* its deletion stays in the list.
C15_RemovedOnlyIfSent ==
    [][\A f \in DigestFrequencies : \A e \in Entries(digest[f]) :
          e \notin Entries(digest'[f])
             => /\ dg.status = "sent"
                /\ f = getDigestKey(dg.frequency)
                /\ e \in Entries(dg.entries)]_vars

\* The status changes of the lifecycle: pending to sent, rate_limited,
\* queued_for_digest, retrying or failed; retrying to sent or failed.
Lifecycle ==
    ({"pending"} \X {"sent", "rate_limited", "queued_for_digest", "retrying", "failed"})
      \cup ({"retrying"} \X {"retrying", "sent", "failed"})

Excepted(c) == {e \in result[c].results : e.error}

\* C21: an invocation whose preferences load succeeded does not throw; with
\* the history store available, every adapter exception left a failed result
\* entry and a failed Delivery Record of the invocation for that channel; and
\* once the invocation has returned from its fan-out, every selected channel
\* has its own result entry or skip entry.
C21_ChannelFailuresContained ==
    \A c \in Calls :
        /\ selected[c].load = "ok" => pc[c] # "thrown"
        /\ \A e \in Excepted(c) :
              /\ e.status = "failed"
              /\ \E r \in records : /\ r.notificationId = c
                                    /\ r.channel = e.channel
                                    /\ r.deliveryStatus = "failed"
        /\ (pc[c] = "done" /\ selected[c].reached /\ ~result[c].queued
              /\ ~result[c].digestQueued)
              => \A ch \in selected[c].channels :
                    \/ \E e \in result[c].results : e.channel = ch
                    \/ \E k \in result[c].skippedChannels : k.channel = ch

\* The Delivery Record with the id the retry engine's state names, as stored
\* before and after a step.
Stored(recs, id) == {r \in recs : r.notificationId = id}

C22_WitnessRefused ==
    /\ retry.answer = "false"
    /\ \E r \in Stored(records, retry.id) : r.deliveryStatus = "sent"

\* The whole text of a contact value, under no encryption.
Cleartext(value) == value.text # "" /\ value.layers = 0 /\ value.whole

\* C23: no stored preferences document holds a phone number, an email address
\* or a push token in cleartext, and no log message carries one.
C23_NoCleartextContact ==
    /\ \A u \in Users : /\ ~Cleartext(prefs[u].phoneNumber)
                        /\ ~Cleartext(prefs[u].address)
                        /\ ~Cleartext(prefs[u].token)
    /\ \A m \in log : ~Cleartext(m.value)

\* C23, its part on log messages alone.
C23_NoCleartextLogged == \A m \in log : ~Cleartext(m.value)

\* Invocation c has returned with at least one channel result sent or delivered.
Succeeded(c) ==
    /\ pc[c] = "done"
    /\ \E e \in result[c].results : e.status \in {"sent", "delivered"}

\* C24: for every Route invocation that returned with a channel result sent or
\* delivered, the audit topic holds a notification.sent event of that
\* notification, keyed by the user id.
C24_SentEventPublished ==
    \A c \in Calls :
        Succeeded(c)
            => \E e \in audit : /\ e.eventType = "notification.sent"
                                /\ e.notificationId = c
                                /\ e.key = req[c].userId

\* C25: a Route invocation the deduplication gate found duplicate returns no
\* channel results, queued and digestQueued false, and exactly one skip entry,
\* whose reason says the notification is a duplicate and carries the id of
\* the original notification.
C25_DuplicateNamesOriginal ==
    \A c \in Calls :
        (pc[c] = "done" /\ gate[c].kind = "duplicate")
            => /\ result[c].results = {}
               /\ ~result[c].queued
               /\ ~result[c].digestQueued
               /\ Cardinality(result[c].skippedChannels) = 1
               /\ \A e \in result[c].skippedChannels :
                     /\ e.reason = "Duplicate notification"
                     /\ e.detail = gate[c].of

\* C25, without the original's id: one skip entry saying duplicate, no
\* results, nothing queued.
C25_DuplicateSkipped ==
    \A c \in Calls :
        (pc[c] = "done" /\ gate[c].kind = "duplicate")
            => /\ result[c].results = {}
               /\ ~result[c].queued
               /\ ~result[c].digestQueued
               /\ Cardinality(result[c].skippedChannels) = 1
               /\ \A e \in result[c].skippedChannels :
                     e.reason = "Duplicate notification"

\* The skip entries of invocation c that the budget refusal of channel ch left.
Refused(c, ch) ==
    {e \in result[c].skippedChannels :
        e.channel = ch /\ e.reason = "Rate limit exceeded"}

\* C26: with the history store available, a channel the budget refused during
\* Route has no adapter call, has a rate_limited Delivery Record of the
\* invocation, and has a skip entry carrying the reset instant; and once the
\* invocation has returned, every other selected channel has its own result
\* entry or skip entry.
C26_RefusalSkipsOneChannel ==
    \A c \in Calls : \A ch \in RateChannels :
        Refused(c, ch) # {}
            => /\ ~Called(c, ch)
               /\ \E r \in records : /\ r.notificationId = c
                                     /\ r.channel = ch
                                     /\ r.deliveryStatus = "rate_limited"
               /\ \A e \in Refused(c, ch) : e.detail # Null
               /\ pc[c] = "done"
                     => \A other \in selected[c].channels \ {ch} :
                           \/ \E e \in result[c].results : e.channel = other
                           \/ \E k \in result[c].skippedChannels : k.channel = other

\* C26, without the Delivery Record.
C26_RefusalWithoutRecord ==
    \A c \in Calls : \A ch \in RateChannels :
        Refused(c, ch) # {}
            => /\ ~Called(c, ch)
               /\ \A e \in Refused(c, ch) : e.detail # Null
               /\ pc[c] = "done"
                     => \A other \in selected[c].channels \ {ch} :
                           \/ \E e \in result[c].results : e.channel = other
                           \/ \E k \in result[c].skippedChannels : k.channel = other

\* The DLQ records written for the message at offset o, when the id asked of
\* them is the event's correlationId or else one made of topic and offset.
WrittenFor(o) ==
    {d \in dlq : d.originalNotificationId
                    = IF correlationId[o] # <<>> THEN correlationId[o] ELSE <<topic, o>>}

\* Route threw on the message at offset o and the handler is past its catch
\* with the DLQ write done.
RouteThrewAndStored(o) ==
    /\ o \in DOMAIN mpc
    /\ mpc[o] = "resolved"
    /\ pc[o] = "thrown"

\* C27: when Route threw on a message carrying a userId and the DLQ write
\* succeeded, the dead-letter store holds exactly one record for the message,
\* keyed by the correlation id or, without one, by an id made of topic and
\* offset; the record carries the failure reason; and the offset is resolved.
C27_RouteFailureDeadLettered ==
    \A o \in Offsets :
        RouteThrewAndStored(o)
            => /\ Cardinality(WrittenFor(o)) = 1
               /\ \A d \in WrittenFor(o) : d.failureReason = errorMessage(o)
               /\ o \in resolved

\* C27 with the id the code writes: the correlation id or kafka-<offset>.
C27_DeadLetteredByOffset ==
    \A o \in Offsets :
        RouteThrewAndStored(o)
            => /\ Cardinality({d \in dlq : d.originalNotificationId
                                 = dlqNotificationId(correlationId[o], o)}) = 1
               /\ \A d \in dlq : d.failureReason = "preferences unavailable"
               /\ o \in resolved

\* C28: the Route invocation a retry cycle makes for its record is not ended
\* by the dedup gate as a duplicate of the record's original Route.
C28_RetryPassesDedupGate ==
    retry.phase = "routing" => gate[retry.slot].kind # "duplicate"

\* C29: no Delivery Record is in the hands of two retry cycles at once, and
\* no record has more than one DLQ record for one exhaustion of its attempts
\* (a manual retry starts a new count).
C29_OneCycleAtATime ==
    /\ ~(/\ retry.phase = "routing"
         /\ overlap.phase = "routing"
         /\ retry.id = overlap.id)
    /\ \A r \in records :
          Cardinality(DeadLettersOf(r.notificationId)) <= 1 + ManualOf(r.notificationId)

\* C29, its part on the stored count: a cycle that ends without a channel
\* sent or delivered leaves the stored retry count of its record one higher.
C29_FailedCycleCounts ==
    [][\A id \in OverlapCalls :
          (/\ overlap.phase = "routing"
           /\ overlap.id = id
           /\ overlap'.phase # "routing"
           /\ ~\E e \in result[overlap.slot].results : e.status \in {"sent", "delivered"})
             => \A r \in Stored(records, id) : \A q \in Stored(records', id) :
                   q.retryCount = r.retryCount + 1]_vars

\* The running retry cycle ends in this step without a channel sent or
\* delivered, or with Route having thrown.
FailedCycleEnds ==
    /\ retry.phase = "routing"
    /\ retry'.phase # "routing"
    /\ \/ pc[retry.slot] = "thrown"
       \/ ~\E e \in result[retry.slot].results : e.status \in {"sent", "delivered"}

\* C30: a retry cycle that ends without a channel sent or delivered, or with
\* Route throwing, raises the stored retry count of its record from n to
\* n + 1; at n + 1 >= the attempt limit the record is marked failed and, the
\* dead-letter store accepting the write, one DLQ record is written for it;
\* below the limit the record stays retrying with its next attempt at
\* now + delay[n + 1].
C30_FailedCycleReschedules ==
    [][FailedCycleEnds =>
          \A r \in Stored(records, retry.id) : \A q \in Stored(records', retry.id) :
             /\ q.retryCount = r.retryCount + 1
             /\ IF r.retryCount + 1 >= maxRetryAttempts
                THEN /\ q.deliveryStatus = "failed"
                     /\ \/ dlq' = dlq
                        \/ \E d \in dlq' : /\ dlq' = dlq \cup {d}
                                           /\ d \notin dlq
                                           /\ d.originalNotificationId = retry.id
                ELSE /\ q.deliveryStatus = "retrying"
                     /\ q.nextRetryAt = now + retryDelaySchedule[r.retryCount + 1]
                     /\ dlq' = dlq]_vars

\* C30 with the count as the code stores it: raised below the limit, left as
\* it was at the limit.
C30_CountKeptAtLimit ==
    [][FailedCycleEnds =>
          \A r \in Stored(records, retry.id) : \A q \in Stored(records', retry.id) :
             IF r.retryCount + 1 >= maxRetryAttempts
             THEN /\ q.retryCount = r.retryCount
                  /\ q.deliveryStatus = "failed"
                  /\ \/ dlq' = dlq
                     \/ \E d \in dlq' : /\ dlq' = dlq \cup {d}
                                        /\ d \notin dlq
                                        /\ d.originalNotificationId = retry.id
             ELSE /\ q.retryCount = r.retryCount + 1
                  /\ q.deliveryStatus = "retrying"
                  /\ q.nextRetryAt = now + retryDelaySchedule[r.retryCount + 1]
                  /\ dlq' = dlq]_vars

\* The retry engine marked the record failed: it is failed after at least one
\* retry cycle, and no cycle is running on it.
MarkedFailedByEngine(r) ==
    /\ r.deliveryStatus = "failed"
    /\ CyclesOf(r.notificationId) > 0
    /\ retry.id # r.notificationId

\* C31: every Delivery Record the retry engine marked failed on reaching the
\* attempt limit has a DLQ record referring to it.
C31_FailedHasDeadLetter ==
    \A r \in records :
        MarkedFailedByEngine(r) => DeadLettersOf(r.notificationId) # {}

\* C32: no Route invocation is ended by the dedup gate as the duplicate of an
\* invocation that had already ended by throwing.
C32_ThrownLeavesNoEntry ==
    [][\A d \in Calls :
          (gate[d].kind # "duplicate" /\ gate'[d].kind = "duplicate")
             => pc[gate'[d].of] # "thrown"]_vars

\* A provider call is made in this step: an adapter is invoked by a Route
\* invocation, or the digest engine has the email adapter send a summary.
ProviderCalled ==
    \/ providerCalls' # providerCalls
    \/ dg.phase = "mail" /\ dg'.phase = "mailed"

\* C33: no provider call is made for a user whose do-not-contact is enabled in
\* the preferences store.
C33_NoCallUnderDoNotContact ==
    [][ProviderCalled => ~prefs["u1"].doNotContact]_vars

\* C33, the digest engine alone: no summary email is sent for a user whose
\* do-not-contact is enabled.
C33_NoDigestUnderDoNotContact ==
    [][(dg.phase = "mail" /\ dg'.phase = "mailed") => ~prefs["u1"].doNotContact]_vars

\* C33, the Router alone: an invocation that loaded preferences with
\* do-not-contact enabled invokes no adapter.
C33_RouterHonoursDoNotContact ==
    \A c \in Calls :
        (pc[c] = "done"
           /\ \E k \in result[c].skippedChannels :
                 k.reason = "User has opted out of notifications")
            => ~\E ch \in Channels : Called(c, ch)

\* The channel set as the specification words it: the per-kind list if one is
\* configured, otherwise the kind's defaults, restricted to the enabled
\* channels, empty for a disabled kind; an empty set of a critical
\* notification becomes the socket when the socket is enabled.
RestrictedChannels(p, rq) ==
    LET tp == p.notificationTypes[rq.eventType]
        list == IF tp.present /\ tp.channels # {} THEN tp.channels
                ELSE EVENT_TYPE_CONFIGS[rq.eventType].defaultChannels
    IN IF tp.present /\ ~tp.enabled THEN {}
       ELSE {ch \in list : p.channels[ch]}

ResolvedChannels(p, rq) ==
    IF RestrictedChannels(p, rq) = {} /\ effectivePriority(rq) = "critical"
         /\ p.channels["websocket"]
    THEN {"websocket"}
    ELSE RestrictedChannels(p, rq)

\* The channels invocation c entered sendToChannel for.
FannedOut(c) == {ch \in Channels : chan[c][ch] # "off"}

\* C34: the channel set Route resolves is the per-kind list or the defaults,
\* restricted to the enabled channels, with the socket forced for an empty set
\* of a critical notification; Route fans out to exactly that set (to none when
\* the notification is held back for quiet hours).
C34_ChannelSetResolved ==
    \A c \in Calls :
        (selected[c].reached /\ selected[c].load = "ok")
            => /\ selected[c].channels = ResolvedChannels(prefs[req[c].userId], req[c])
               /\ FannedOut(c) = IF result[c].queued \/ result[c].digestQueued
                                 THEN {} ELSE selected[c].channels

\* A critical notification of a kind the user disabled went out on the socket,
\* and on the socket only.
C34_Witness ==
    \E c \in Calls :
        /\ pc[c] = "done"
        /\ effectivePriority(req[c]) = "critical"
        /\ RestrictedChannels(prefs[req[c].userId], req[c]) = {}
        /\ selected[c].channels = {"websocket"}
        /\ Called(c, "websocket")
        /\ \A ch \in Channels \ {"websocket"} : ~Called(c, ch)

\* A non-critical notification resolved to the empty set and Route returned
\* without attempting a channel.
C34_WitnessEmpty ==
    \E c \in Calls :
        /\ pc[c] = "done"
        /\ selected[c].reached
        /\ effectivePriority(req[c]) # "critical"
        /\ selected[c].channels = {}
        /\ ~result[c].queued /\ ~result[c].digestQueued
        /\ \A ch \in Channels : ~Called(c, ch)

\* The retry engine left to its ticks: an administrator puts the failed record
\* into the engine by one manual retry and retries nothing by hand after that.
\* The history store is available: the scanner's query is answered, so a tick
\* that finds due rows takes them up.
NextSettle ==
    \/ OriginalRoute
    \/ RetryTick
    \/ \E id \in AdminIds : ManualOf(1) = 0 /\ ManualRetry(id)
    \/ RetryStart
    \/ RetryEnd
    \/ RetryDedupGate
    \/ RetryPreferencesLoad
    \/ RetryBudgetCall
    \/ RetryChannelSend
    \/ RetryTimePasses

SpecSettle ==
    /\ InitRetry
    /\ [][NextSettle]_vars
    /\ WF_vars(RetryTick)
    /\ WF_vars(ProcessRetries(TRUE))
    /\ WF_vars(RetryStart)
    /\ WF_vars(RetryEnd)
    /\ WF_vars(RetryDedupGate \/ RetryPreferencesLoad \/ RetryBudgetCall
                 \/ RetryChannelSend)
    /\ WF_vars(RetryTimePasses)

\* The record of that id is in status retrying; it is in status sent or failed.
StillRetrying(id) == \E r \in records : r.notificationId = id /\ r.deliveryStatus = "retrying"
LeftEngine(id) ==
    \E r \in records : r.notificationId = id /\ r.deliveryStatus \in {"sent", "failed"}

\* The one Delivery Record of the retry engine's behaviours is that of the
\* notification routed first.
OnlyFirstStored == \A r \in records : r.notificationId = 1

\* The retry cycles of a record that was not retried by hand a second time
\* number at most maxRetryAttempts, and after that many the record is settled.
CyclesWithinLimit ==
    \A r \in records :
        ManualOf(r.notificationId) <= 1
            => /\ CyclesOf(r.notificationId) <= maxRetryAttempts
               /\ (CyclesOf(r.notificationId) = maxRetryAttempts
                     /\ retry.id # r.notificationId)
                      => LeftEngine(r.notificationId)

\* C35: with the ticks firing and the history store answering, a retrying
\* record that no one retries by hand again reaches sent or failed, after at
\* most maxRetryAttempts retry cycles.
C35_RetryingSettles ==
    /\ []CyclesWithinLimit
    /\ [](StillRetrying(1) => <>LeftEngine(1))

\* A record went through maxRetryAttempts cycles, the first of them started
\* by hand, and left the engine as failed.
C35_Witness ==
    \E r \in records :
        /\ r.deliveryStatus = "failed"
        /\ CyclesOf(r.notificationId) = maxRetryAttempts
        /\ ManualOf(r.notificationId) = 1
        /\ retry.phase = "idle"

\* A record left the engine as sent after a failed cycle and a successful one.
C35_WitnessSent ==
    \E r \in records :
        /\ r.deliveryStatus = "sent"
        /\ CyclesOf(r.notificationId) = 2
        /\ ManualOf(r.notificationId) = 1
        /\ retry.phase = "idle"

\* The retry engine left to its ticks, which fire whether or not the tick
\* before them has returned: one manual retry puts the failed record into the
\* engine, and nothing is retried by hand after that.
LateCalls == 1..MaxLateCalls

InitLate ==
    /\ InitRouter(LateCalls)
    /\ dedup = [k \in DedupKeys |-> NoEntry]
    /\ tod = 720
    /\ prefs = [u \in Users |-> DefaultPrefs]
    /\ IngestorIdle
    /\ RetryIdle
    /\ BudgetIdle
    /\ DigestIdle
    /\ dlq = {}

NextLate ==
    \/ \E rq \in RetryRequests : Route(1, rq) /\ RouterOnly
    \/ ManualOf(1) = 0 /\ ManualRetry(1)
    \/ ProcessRetries(TRUE)
    \/ retry.by = "tick" /\ OverlappingProcessRetries(TRUE)
    \/ \E c \in LateCalls : RetryNotification(c)
    \/ \E c \in LateCalls : OverlappingRetryNotification(c)
    \/ RetrySettles(TRUE)
    \/ OverlappingRetrySettles(TRUE)
    \/ \E c \in LateCalls : CheckAndMark(c, TRUE) /\ RouterOnly
    \/ \E c \in LateCalls : LoadPreferences(c, TRUE) /\ RouterOnly
    \/ \E c \in LateCalls : \E ch \in RateChannels :
          ConsumeLimit(c, ch, TRUE, TRUE) /\ RouterOnly
    \/ \E c \in LateCalls : \E ch \in Channels : \E out \in Reported(ch) :
          SendToChannel(c, ch, out, TRUE) /\ RouterOnly
    \/ \E t \in Timers : Advance(t) /\ RouterOnly

SpecLate == InitLate /\ [][NextLate]_vars

\* C35, the number of cycles: a record that is not retried by hand a second
\* time goes through at most maxRetryAttempts retry cycles.
C35_AtMostMaxAttemptsCycles ==
    \A r \in records :
        ManualOf(r.notificationId) <= 1
            => CyclesOf(r.notificationId) <= maxRetryAttempts

\* ------------------------------------------------- the scanner's batch limit
\* checkIntervalMs, in seconds, and the limit of the scanner's query.
checkIntervalMs == 30
limit == 100

\* The subsets of k rows of a set.
RECURSIVE RowsOfSize(_, _)
RowsOfSize(rows, k) ==
    IF k = 0 THEN {{}}
    ELSE UNION {{rest \cup {r} : rest \in RowsOfSize(rows \ {r}, k - 1)} : r \in rows}

\* findAll with limit and order [['nextRetryAt', 'ASC']]: the first `limit`
\* due rows; rows with equal nextRetryAt come in any order.
FirstByNextRetryAt(due) ==
    IF Cardinality(due) <= limit THEN {due}
    ELSE {due \ beyond : beyond \in
            {b \in RowsOfSize(due, Cardinality(due) - limit) :
                \A x \in b : \A y \in due \ b : y.nextRetryAt <= x.nextRetryAt}}

\* One DLQ row for every row of a set.
RECURSIVE DeadLetterAll(_, _, _)
DeadLetterAll(rows, dead, reason) ==
    IF dead = {} THEN rows
    ELSE LET n == CHOOSE r \in dead : TRUE
         IN DeadLetterAll(moveToDeadLetterQueue(rows, n, reason, TRUE),
                          dead \ {n}, reason)

\* A Delivery Record a failed retry cycle left retrying, due one second before
\* the second tick.
DueRow(i) ==
    [NoRow EXCEPT !.notificationId = i, !.eventType = "regulatory_alert",
                  !.eventSourceId = i, !.channel = "email",
                  !.priority = "critical", !.deliveryStatus = "retrying",
                  !.retryCount = 1, !.nextRetryAt = checkIntervalMs - 1,
                  !.idempotencyKey = <<"u1", "regulatory_alert", i, "email">>]

\* The retry service starts with MaxDue records waiting for their next cycle.
InitScan ==
    /\ now = 0
    /\ rate = [k \in RateKeys |-> [hour |-> NoCounter, day |-> NoCounter]]
    /\ allowedSince = [k \in RateKeys |-> [hour |-> 0, day |-> 0]]
    /\ pc = [c \in Calls |-> "idle"]
    /\ req = [c \in Calls |-> NoRequest]
    /\ gate = [c \in Calls |-> NoGate]
    /\ selected = [c \in Calls |-> NoSelection]
    /\ chan = [c \in Calls |-> [ch \in Channels |-> "off"]]
    /\ result = [c \in Calls |-> EmptyResult]
    /\ records = {DueRow(i) : i \in 1..MaxDue}
    /\ providerCalls = {}
    /\ consumed = {}
    /\ log = {}
    /\ audit = {}
    /\ dedup = [k \in DedupKeys |-> NoEntry]
    /\ tod = 720
    /\ prefs = [u \in Users |-> DefaultPrefs]
    /\ IngestorIdle
    /\ RetryIdle
    /\ BudgetIdle
    /\ DigestIdle
    /\ dlq = {}

\* One tick of the interval timer and the wait for the next: processRetries
\* takes the first `limit` due rows and runs a retry cycle on each, the
\* provider answering all of them alike; the rows beyond the limit are left
\* as they are. The next tick is due checkIntervalMs later.
IntervalTick(status) ==
    /\ now < MaxScanTicks * checkIntervalMs
    /\ \E rows \in FirstByNextRetryAt(DueForRetry) :
          LET dead == {n \in rows : status = "failed" /\ scheduleNextRetry(n, now).dead}
          IN /\ records' = (records \ rows)
                             \cup {IF status = "sent" THEN markSent(n)
                                   ELSE scheduleNextRetry(n, now).row : n \in rows}
             /\ dlq' = DeadLetterAll(dlq, dead, "error")
    /\ now' = now + checkIntervalMs
    /\ UNCHANGED <<tod, audit, prefs, log, dedup, rate, allowedSince, pc, req, gate,
                   selected, chan, result, providerCalls, consumed,
                   ingestVars, retryVars, budgetVars, digestVars>>

NextScan == \E status \in {"sent", "failed"} : IntervalTick(status)

SpecScan == InitScan /\ [][NextScan]_vars

\* C36: every record in status retrying has nextRetryAt > now - one tick
\* interval: a due record is taken up within one interval of becoming due.
C36_RetryingNotOverdue ==
    \A r \in records :
        r.deliveryStatus = "retrying" => r.nextRetryAt > now - checkIntervalMs

\* ------------------------------------------------ digest ticks of one hour
\* digestCheckIntervalMs, in seconds.
digestCheckIntervalMs == 60

\* The wait for the next tick of the digest timer and that tick: both clocks
\* move on by the check interval, Redis drops the keys whose TTL has run out,
\* and processDigests runs at the new time of day.
DigestInterval(up) ==
    /\ dg.phase = "idle"
    /\ tod % 60 < MaxMinutes
    /\ tod' = tod + digestCheckIntervalMs \div 60
    /\ now' = now + digestCheckIntervalMs
    /\ dedup' = [k \in DedupKeys |->
                   IF dedup[k].exp <= now' THEN NoEntry ELSE dedup[k]]
    /\ rate' = [k \in RateKeys |->
                  [hour |-> IF rate[k].hour.exp <= now' THEN NoCounter ELSE rate[k].hour,
                   day |-> IF rate[k].day.exp <= now' THEN NoCounter ELSE rate[k].day]]
    /\ allowedSince' = [k \in RateKeys |->
                  [hour |-> IF rate[k].hour.exp <= now' THEN 0 ELSE allowedSince[k].hour,
                   day |-> IF rate[k].day.exp <= now' THEN 0 ELSE allowedSince[k].day]]
    /\ dg' = IF findUsersForDigest(prefs["u1"], tod', 2, up)
             THEN [NoDigestRun EXCEPT !.phase = "read",
                                      !.frequency = prefs["u1"].digestFrequency]
             ELSE NoDigestRun
    /\ UNCHANGED <<audit, prefs, log, pc, req, gate, selected, chan, result, records,
                   providerCalls, consumed, dlq, ingestVars, retryVars, budgetVars,
                   digest>>

\* The scheduled digest engine from 09:00 on, the user's digest time:
\* notifications arrive in quiet hours and are queued, the timer ticks once a
\* minute and a run is over before the next tick; no digest is forced by hand.
NextHour ==
    \/ \E c \in DigestCalls :
          /\ NoRouteRunning
          /\ FirstIdle(c)
          /\ Route(c, [userId |-> "u1", eventType |-> "login_attempt",
                       eventSourceId |-> "s1", priority |-> "undefined"])
          /\ RouterOnly
    \/ \E c \in DigestCalls : CheckAndMark(c, TRUE) /\ RouterOnly
    \/ \E c \in DigestCalls : LoadPreferences(c, TRUE) /\ RouterOnly
    \/ \E id \in DigestCalls : QueueForDigest(id, "daily", TRUE)
    \/ \E up \in BOOLEAN : DigestInterval(up)
    \/ \E up \in BOOLEAN : DigestRead(up)
    \/ \E up \in BOOLEAN : \E status \in {"sent", "failed"} : DigestMail(up, status)
    \/ \E up \in BOOLEAN : DigestClear(up)
    \/ \E up \in BOOLEAN : DigestMark(up)

SpecHour == InitDigest /\ [][NextHour]_vars

\* A summary email went out earlier in the behaviour; every behaviour of the
\* hourly engine stays within the clock hour it starts in.
DigestSentBefore == \E e \in log : e.message = "Digest email sent"
WithinTheHour == tod \div 60 = 9

\* C37: within one clock hour the digest engine sends at most one summary
\* email to the user: once one was sent, no later tick of the hour sends
\* another.
C37_OneDigestPerHour ==
    [][(dg.phase = "mail" /\ dg'.phase = "mailed" /\ dg'.status = "sent")
          => ~DigestSentBefore]_vars

\* ------------------------------------------------------ the user's timezone
\* A user with quiet hours 22:00 to 07:00 who lives in the zone of the process
\* or three hours east of it.
ZonePrefs ==
    {[DefaultPrefs EXCEPT !.quietHours.enabled = TRUE,
                          !.quietHours.criticalAlertsBypass = FALSE,
                          !.timezone = z] : z \in {0, 180}}

\* It is 12:00 or 20:00 on the clock of the process.
InitZone ==
    /\ InitRouter(Calls)
    /\ IngestorIdle
    /\ RetryIdle
    /\ BudgetIdle
    /\ DigestIdle
    /\ dlq = {}
    /\ dedup = [k \in DedupKeys |-> NoEntry]
    /\ tod \in {720, 1200}
    /\ \E p \in ZonePrefs : prefs = [u \in Users |-> p]

SpecZone == InitZone /\ [][NextPolicy]_vars

\* The time of day in the user's zone when the process clock shows t.
UserTimeOfDay(p, t) == (t + p.timezone) % 1440

\* C38: the quiet-hours reading of Route is the one of the user's configured
\* timezone: an invocation that loaded the preferences took the user to be in
\* quiet hours exactly if the time in the user's zone is inside the window.
C38_QuietHoursInUserZone ==
    \A c \in Calls :
        (selected[c].reached /\ selected[c].load = "ok")
            => (selected[c].inQuietHours
                  <=> isInQuietHours(prefs[req[c].userId],
                                     UserTimeOfDay(prefs[req[c].userId], tod)))

\* ------------------------------------------------------------------ shutdown
\* life.phase is the step of shutdown() that comes next; life.exit the code
\* the process exited with (Null: it is running).
GRACE == 30

StopCalls == 1..MaxStopCalls

\* What shutdown() has done so far.
ShutdownOrder ==
    <<"running", "serverClose", "stopConsumer", "stopScanners", "closeDatabase",
      "closeMongoDB", "closeRedis", "exited">>
Before(phase) == {ShutdownOrder[i] : i \in 1..(CHOOSE j \in DOMAIN ShutdownOrder :
                                                  ShutdownOrder[j] = phase)}
ConsumerStopped == life.phase \notin Before("stopConsumer")
ScannersStopped == life.phase \notin Before("stopScanners")
ClosedStores ==
    {st \in {"closeDatabase", "closeMongoDB", "closeRedis"} : life.phase \notin Before(st)}

\* A Route invocation made by a caller of the service, not by a retry tick.
CallerInFlight ==
    \/ \E c \in DOMAIN pc : pc[c] \notin {"idle", "done", "thrown", "closed"}
                               /\ ~(retry.slot = c /\ retry.by = "tick")
    \/ retry.phase # "idle" /\ retry.by = "manual"

\* shutdown(signal): server.close is called and the 30 s timer is armed.
Shutdown ==
    /\ life.phase = "running"
    /\ life' = [life EXCEPT !.phase = "serverClose", !.deadline = now + GRACE]
    /\ UNCHANGED <<routerVars, dlq, ingestVars, retryVars, reply, digestVars>>

\* The callback of server.close runs once the requests in flight have ended.
ServerClosed ==
    /\ life.phase = "serverClose"
    /\ ~CallerInFlight
    /\ life' = [life EXCEPT !.phase = "stopConsumer"]
    /\ UNCHANGED <<routerVars, dlq, ingestVars, retryVars, reply, digestVars>>

\* One awaited call of the callback returns: kafkaEventConsumer.stop, the two
\* scanners' stop (clearInterval), closeDatabase, closeMongoDB, closeRedis;
\* each of them swallows its own errors. After closeRedis the process exits
\* with code 0.
ShutdownStep ==
    /\ life.phase \in {"stopConsumer", "stopScanners", "closeDatabase",
                       "closeMongoDB", "closeRedis"}
    /\ LET i == CHOOSE j \in DOMAIN ShutdownOrder : ShutdownOrder[j] = life.phase
       IN life' = [life EXCEPT !.phase = ShutdownOrder[i + 1],
                               !.exit = IF life.phase = "closeRedis" THEN 0 ELSE @]
    /\ UNCHANGED <<routerVars, dlq, ingestVars, retryVars, reply, digestVars>>

\* The 30 s timer fires before shutdown() has come to its end.
ForcedShutdown ==
    /\ life.phase \notin {"running", "exited"}
    /\ Elapse(life.deadline)
    /\ life' = [life EXCEPT !.phase = "exited", !.exit = 1]
    /\ UNCHANGED <<dlq, ingestVars, retryVars, reply, digestVars>>

\* The service with its retry engine until the process exits: callers route
\* and retry by hand while the server accepts requests, the interval timer
\* ticks until it is cleared, a started cycle runs on.
NextStop ==
    \/ /\ life.phase = "running"
       /\ \E rq \in RetryRequests : Route(1, rq) /\ RouterOnly
    \/ life.phase = "running" /\ ManualRetry(1)
    \/ life.exit = Null /\ ~ScannersStopped /\ ProcessRetries(TRUE)
    \/ \E c \in StopCalls : life.exit = Null /\ RetryNotification(c)
    \/ life.exit = Null /\ RetrySettles(TRUE)
    \/ \E c \in StopCalls : life.exit = Null /\ CheckAndMark(c, TRUE) /\ RouterOnly
    \/ \E c \in StopCalls : life.exit = Null /\ LoadPreferences(c, TRUE) /\ RouterOnly
    \/ \E c \in StopCalls : \E ch \in RateChannels :
          life.exit = Null /\ ConsumeLimit(c, ch, TRUE, TRUE) /\ RouterOnly
    \/ \E c \in StopCalls : \E ch \in Channels : \E out \in Reported(ch) :
          life.exit = Null /\ SendToChannel(c, ch, out, TRUE) /\ RouterOnly
    \/ \E t \in Timers :
          /\ life.exit = Null
          /\ life.deadline # Null => t < life.deadline
          /\ Advance(t)
          /\ RouterOnly
    \/ Shutdown
    \/ ServerClosed
    \/ ShutdownStep
    \/ ForcedShutdown

InitStop ==
    /\ InitRouter(StopCalls)
    /\ dedup = [k \in DedupKeys |-> NoEntry]
    /\ tod = 720
    /\ prefs = [u \in Users |-> DefaultPrefs]
    /\ IngestorIdle
    /\ RetryIdle
    /\ BudgetIdle
    /\ DigestIdle
    /\ dlq = {}

SpecStop == InitStop /\ [][NextStop]_vars

\* A Route invocation or a retry tick is in progress.
WorkInFlight ==
    \/ \E c \in DOMAIN pc : pc[c] \notin {"idle", "done", "thrown", "closed"}
    \/ retry.phase # "idle"
    \/ dg.phase # "idle"

\* C39, the order: the scanners are stopped only after the ingestor, and a
\* store is closed only after the scanners.
C39_StopOrder ==
    /\ ScannersStopped => ConsumerStopped
    /\ ClosedStores # {} => ScannersStopped

\* C39, the grace period: a shutdown that has not come to its end 30 s after
\* the signal ends with a non-zero exit code.
C39_GraceExit ==
    (life.exit = 0) => now < life.deadline
C39_ForcedExitNonZero ==
    [][(life.phase \notin {"running", "exited"} /\ now' >= life.deadline)
          => life'.exit \notin {Null, 0}]_vars

\* C39: on shutdown no store is closed while a Route invocation, a retry tick
\* or a digest tick is in progress.
C39_NoStoreClosedInFlight ==
    (life.exit = Null /\ ClosedStores # {}) => ~WorkInFlight

\* ------------------------------------------------------------ device registry
DeviceIds(devices) == {devices[i].deviceId : i \in DOMAIN devices}

\* The device ids a request carries: one of the list, the next id no device
\* has had yet, or the first id again after it was removed.
RequestIds(devices) ==
    LET ids == DeviceIds(devices)
        last == IF ids = {} THEN 0 ELSE CHOOSE m \in ids : \A d \in ids : d <= m
    IN {id \in 1..MaxDeviceId : id \in ids \/ id = 1 \/ id = last + 1}

\* A new user without devices.
InitDevices ==
    /\ InitRouter(Calls)
    /\ IngestorIdle
    /\ RetryIdle
    /\ BudgetIdle
    /\ DigestIdle
    /\ dlq = {}
    /\ dedup = [k \in DedupKeys |-> NoEntry]
    /\ tod = 720
    /\ prefs = [u \in Users |-> PrivacyPrefs]

\* Registrations and unregistrations, one request after the other; the token
\* of the first device changes when it is registered again.
NextDevices ==
    \/ \E id \in RequestIds(prefs["u1"].devices) : \E up \in BOOLEAN :
          RegisterDevice("u1", id, "token", up)
    \/ \E up \in BOOLEAN : RegisterDevice("u1", 1, "token2", up)
    \/ \E id \in 1..MaxDeviceId : \E up \in BOOLEAN : UnregisterDevice("u1", id, up)

SpecDevices == InitDevices /\ [][NextDevices]_vars

\* The device list holds at most 10 entries with pairwise distinct ids.
DeviceListWellFormed ==
    \A u \in Users :
        LET devices == prefs[u].devices
        IN /\ Len(devices) <= 10
           /\ \A i, j \in DOMAIN devices :
                 devices[i].deviceId = devices[j].deviceId => i = j

\* One change of a device list: an entry removed; an entry replaced by one of
\* the same id, the others and the count as they were; a new id appended below
\* the limit; or, with 10 entries, the oldest-registered (the first) dropped
\* and the new id appended.
DeviceListStep(before, after) ==
    \/ \E id \in DeviceIds(before) :
          after = SelectSeq(before, LAMBDA d : d.deviceId # id)
    \/ /\ Len(after) = Len(before)
       /\ \E i \in DOMAIN before :
             /\ after[i].deviceId = before[i].deviceId
             /\ \A j \in DOMAIN before : j # i => after[j] = before[j]
    \/ /\ Len(before) < 10
       /\ SubSeq(after, 1, Len(before)) = before
       /\ Len(after) = Len(before) + 1
       /\ after[Len(after)].deviceId \notin DeviceIds(before)
    \/ /\ Len(before) = 10
       /\ Len(after) = 10
       /\ SubSeq(after, 1, 9) = Tail(before)
       /\ after[10].deviceId \notin DeviceIds(before)

C40_WitnessReplaced ==
    LET devices == prefs["u1"].devices
    IN /\ Len(devices) >= 2
       /\ devices[1] = [deviceId |-> 1, token |-> Typed("token2")]

====
